---- MODULE Spec2Model ----
(***************************************************************************)
(* A model of pyeapi's eAPI client: the connection objects of              *)
(* src/pyeapi/eapilib.py (request building, the HTTP exchange of send, the  *)
(* session login, error classification, redaction of logged requests).     *)
(*                                                                         *)
(* JSON text is a sequence of lexical tokens, JSON values are tagged       *)
(* records, json.dumps / json.loads are the conversions between the two.   *)
(***************************************************************************)
EXTENDS Integers, Sequences, FiniteSets, TLC

(***************************************************************************)
(* JSON values (what json.loads returns, what json.dumps accepts).  A dict *)
(* keeps its entries in insertion order as <<key, value>> pairs.  A Python *)
(* tuple, the wildcard of _find_sub_json, is its own kind of value.        *)
(***************************************************************************)
\* The text of a string is a sequence of chunks, so that the regular
\* expressions of the code can be modelled on it; Str is a one-chunk string.
Txt(chunks) == [t |-> "str", s |-> chunks]

Str(s) == Txt(<<s>>)

Num(n) == [t |-> "num", n |-> n]

Bool(b) == [t |-> "bool", b |-> b]

Null == [t |-> "null"]

List(items) == [t |-> "list", items |-> items]

Dict(items) == [t |-> "dict", items |-> items]

Wildcard == [t |-> "tuple"]

\* The entries of a container as (key, value) pairs, in iteration order:
\* jsn.items() for a dict, enumerate(jsn) for a list (0-based indexes).
Entries(jsn) ==
    IF jsn.t = "dict"
    THEN [i \in 1..Len(jsn.items) |-> [key |-> jsn.items[i][1], idx |-> 0, val |-> jsn.items[i][2]]]
    ELSE [i \in 1..Len(jsn.items) |-> [key |-> "", idx |-> i - 1, val |-> jsn.items[i]]]

\* dict lookup d[key]; only used where the key is present.
Get(d, key) ==
    LET i == CHOOSE j \in 1..Len(d.items) : d.items[j][1] = key
    IN d.items[i][2]

Has(d, key) == d.t = "dict" /\ \E j \in 1..Len(d.items) : d.items[j][1] = key

\* d[key] = val on a dict: an existing key keeps its place, a new one goes last.
Put(d, key, val) ==
    IF Has(d, key)
    THEN Dict([j \in 1..Len(d.items) |->
                 IF d.items[j][1] = key THEN <<key, val>> ELSE d.items[j]])
    ELSE Dict(Append(d.items, <<key, val>>))

(***************************************************************************)
(* JSON text: a sequence of tokens.  "junk" is text that is no JSON token  *)
(* (an HTML error page, a truncated word).                                 *)
(***************************************************************************)
Tok(k, s, n) == [k |-> k, s |-> s, n |-> n]

Punct(k) == Tok(k, <<>>, 0)

RECURSIVE Dumps(_)
RECURSIVE DumpsItems(_, _)
RECURSIVE DumpsMembers(_, _)

DumpsItems(items, i) ==
    IF i > Len(items) THEN <<>>
    ELSE Dumps(items[i]) \o DumpsItems(items, i + 1)

DumpsMembers(items, i) ==
    IF i > Len(items) THEN <<>>
    ELSE <<Tok("key", <<items[i][1]>>, 0)>> \o Dumps(items[i][2]) \o DumpsMembers(items, i + 1)

\* json.dumps; a tuple is written as a list.
Dumps(v) ==
    CASE v.t = "str" -> <<Tok("str", v.s, 0)>>
      [] v.t = "num" -> <<Tok("num", <<>>, v.n)>>
      [] v.t = "bool" -> <<Punct(IF v.b THEN "true" ELSE "false")>>
      [] v.t = "null" -> <<Punct("null")>>
      [] v.t = "list" -> <<Punct("[")>> \o DumpsItems(v.items, 1) \o <<Punct("]")>>
      [] v.t = "tuple" -> <<Punct("["), Punct("]")>>
      [] v.t = "dict" -> <<Punct("{")>> \o DumpsMembers(v.items, 1) \o <<Punct("}")>>

ParseFail == [ok |-> FALSE, v |-> Null, next |-> 0]

RECURSIVE ParseValue(_, _)
RECURSIVE ParseItems(_, _, _)
RECURSIVE ParseMembers(_, _, _)

ParseItems(toks, i, acc) ==
    IF i > Len(toks) THEN ParseFail
    ELSE IF toks[i].k = "]" THEN [ok |-> TRUE, v |-> List(acc), next |-> i + 1]
    ELSE LET r == ParseValue(toks, i)
         IN IF r.ok THEN ParseItems(toks, r.next, Append(acc, r.v)) ELSE ParseFail

ParseMembers(toks, i, acc) ==
    IF i > Len(toks) THEN ParseFail
    ELSE IF toks[i].k = "}" THEN [ok |-> TRUE, v |-> acc, next |-> i + 1]
    ELSE IF toks[i].k # "key" THEN ParseFail
    ELSE LET r == ParseValue(toks, i + 1)
         IN IF r.ok THEN ParseMembers(toks, r.next, Put(acc, toks[i].s[1], r.v))
            ELSE ParseFail

ParseValue(toks, i) ==
    IF i > Len(toks) THEN ParseFail
    ELSE CASE toks[i].k = "str" -> [ok |-> TRUE, v |-> Txt(toks[i].s), next |-> i + 1]
           [] toks[i].k = "num" -> [ok |-> TRUE, v |-> Num(toks[i].n), next |-> i + 1]
           [] toks[i].k = "true" -> [ok |-> TRUE, v |-> Bool(TRUE), next |-> i + 1]
           [] toks[i].k = "false" -> [ok |-> TRUE, v |-> Bool(FALSE), next |-> i + 1]
           [] toks[i].k = "null" -> [ok |-> TRUE, v |-> Null, next |-> i + 1]
           [] toks[i].k = "[" -> ParseItems(toks, i + 1, <<>>)
           [] toks[i].k = "{" -> ParseMembers(toks, i + 1, Dict(<<>>))
           [] OTHER -> ParseFail

\* json.loads: the value of the whole text, or ValueError (ok = FALSE).
Loads(toks) ==
    LET r == ParseValue(toks, 1)
    IN IF r.ok /\ r.next = Len(toks) + 1 THEN r ELSE ParseFail

(***************************************************************************)
(* _find_sub_json and its helpers.                                         *)
(***************************************************************************)
is_iterable(val) == val.t \in {"list", "dict"}

is_atomic(val) == ~is_iterable(val)

\* The order of Python's string comparison on the keys the model uses.
KeyOrder == <<"autoComplete", "cmd", "cmds", "code", "data", "error", "errors",
              "expandAliases", "format", "id", "input", "jsonrpc", "message",
              "method", "output", "params", "password", "result", "revision",
              "streaming", "username", "version">>

KeyRank(k) == CHOOSE i \in 1..Len(KeyOrder) : KeyOrder[i] = k

RECURSIVE SortedInsert(_, _)
SortedInsert(sorted, e) ==
    IF sorted = <<>> THEN <<e>>
    ELSE IF KeyRank(e.key) < KeyRank(Head(sorted).key) THEN <<e>> \o sorted
    ELSE <<Head(sorted)>> \o SortedInsert(Tail(sorted), e)

RECURSIVE SortedFrom(_, _)
SortedFrom(es, i) ==
    IF i > Len(es) THEN <<>>
    ELSE SortedInsert(SortedFrom(es, i + 1), es[i])

\* sorted(jsn.items()) for a dict (by key), sorted(enumerate(jsn)) for a list
\* (already in index order).
SortedEntries(jsn) ==
    IF jsn.t = "dict" THEN SortedFrom(Entries(jsn), 1) ELSE Entries(jsn)

\* sbj == jsn on atomic values: a bool is the number 0 or 1.
NumberOf(v) == IF v.t = "bool" THEN (IF v.b THEN 1 ELSE 0) ELSE v.n

PyEq(a, b) ==
    IF a.t \in {"num", "bool"} /\ b.t \in {"num", "bool"}
    THEN NumberOf(a) = NumberOf(b)
    ELSE a = b

RECURSIVE is_match(_, _)
RECURSIVE MatchZip(_, _, _)
RECURSIVE MatchZipNoKeys(_, _, _)

\* Faulty variant of MatchZip: the keys of the entries are not compared.
MatchZipNoKeys(left, right, i) ==
    IF i > Len(left) THEN TRUE
    ELSE IF ~is_match(left[i].val, right[i].val) THEN FALSE
    ELSE MatchZipNoKeys(left, right, i + 1)

MatchZip(left, right, i) ==
    IF i > Len(left) THEN TRUE
    ELSE IF left[i].key # right[i].key \/ left[i].idx # right[i].idx THEN FALSE
    ELSE IF ~is_match(left[i].val, right[i].val) THEN FALSE
    ELSE MatchZip(left, right, i + 1)

is_match(jsn, sbj) ==
    IF sbj.t = "tuple" THEN TRUE
    ELSE IF is_atomic(sbj) THEN (IF is_iterable(jsn) THEN FALSE ELSE PyEq(sbj, jsn))
    ELSE IF jsn.t # sbj.t \/ Len(jsn.items) # Len(sbj.items) THEN FALSE
    ELSE MatchZip(SortedEntries(jsn), SortedEntries(sbj), 1)

\* A Match: the container (by the positions leading to it from the root of
\* the search) and the position of the matching entry in it; inst is what is
\* left of the shared instance counter.
NoMatch(inst) == [found |-> FALSE, path |-> <<>>, pos |-> 0, inst |-> inst]

RECURSIVE _find_sub_json(_, _, _)
RECURSIVE FindLoop(_, _, _, _)

FindLoop(jsn, sbj, inst, i) ==
    IF i > Len(jsn.items) THEN NoMatch(inst)
    ELSE LET val == Entries(jsn)[i].val
             hit == is_match(val, sbj)
             inst1 == IF hit /\ inst > 0 THEN inst - 1 ELSE inst
         IN IF hit /\ inst = 0
            THEN [found |-> TRUE, path |-> <<>>, pos |-> i, inst |-> inst]
            ELSE IF is_iterable(val)
            THEN LET m == _find_sub_json(val, sbj, inst1)
                 IN IF m.found
                    THEN [m EXCEPT !.path = <<i>> \o m.path]
                    ELSE FindLoop(jsn, sbj, m.inst, i + 1)
            ELSE FindLoop(jsn, sbj, inst1, i + 1)

\* Faulty variant of _find_sub_json: the instance argument is ignored.
FindIgnoringInstance(jsn, sbj, instance) ==
    IF is_atomic(jsn) THEN NoMatch(instance)
    ELSE FindLoop(jsn, sbj, 0, 1)

_find_sub_json(jsn, sbj, instance) ==
    IF is_atomic(jsn) THEN NoMatch(instance)
    ELSE FindLoop(jsn, sbj, instance, 1)

\* The value at a path of positions, and the tree with that value replaced.
RECURSIVE At(_, _)
At(jsn, path) ==
    IF path = <<>> THEN jsn
    ELSE At(Entries(jsn)[Head(path)].val, Tail(path))

RECURSIVE Replace(_, _, _)
Replace(jsn, path, new) ==
    IF path = <<>> THEN new
    ELSE LET i == Head(path)
             sub == Replace(Entries(jsn)[i].val, Tail(path), new)
         IN IF jsn.t = "dict"
            THEN Dict([jsn.items EXCEPT ![i] = <<jsn.items[i][1], sub>>])
            ELSE List([jsn.items EXCEPT ![i] = sub])

Removed == Str("<removed>")

EnablePattern == Dict(<< <<"cmd", Str("enable")>>, <<"input", Wildcard>> >>)

\* Faulty variant of _sanitize_request: the match that is redacted is the
\* first one whose input is not the placeholder yet.
RECURSIVE FreshMatch(_, _)
FreshMatch(tree, inst) ==
    LET m == _find_sub_json(tree, EnablePattern, inst)
    IN IF ~m.found THEN m
       ELSE IF Get(At(tree, m.path \o <<m.pos>>), "input") = Removed
       THEN FreshMatch(tree, inst + 1)
       ELSE m

SanitizeFresh(data) ==
    LET parsed == Loads(data)
        match == FreshMatch(parsed.v, 0)
        at == match.path \o <<match.pos>>
    IN IF ~parsed.ok THEN data
       ELSE IF match.found
       THEN Dumps(Replace(parsed.v, at, Put(At(parsed.v, at), "input", Removed)))
       ELSE data

\* Faulty variant of _sanitize_request: text that is not JSON is not handed
\* back.
SanitizeOrEmpty(data) ==
    LET parsed == Loads(data)
        match == _find_sub_json(parsed.v, EnablePattern, 0)
        at == match.path \o <<match.pos>>
    IN IF ~parsed.ok THEN <<>>
       ELSE IF match.found
       THEN Dumps(Replace(parsed.v, at, Put(At(parsed.v, at), "input", Removed)))
       ELSE data

\* _sanitize_request: the text that is logged for the request text data.
_sanitize_request(data) ==
    LET parsed == Loads(data)
        match == _find_sub_json(parsed.v, EnablePattern, 0)
        at == match.path \o <<match.pos>>
    IN IF ~parsed.ok THEN data
       ELSE IF match.found
       THEN Dumps(Replace(parsed.v, at, Put(At(parsed.v, at), "input", Removed)))
       ELSE data

(***************************************************************************)
(* Exceptions.  An exception object is a record; ref is its identity (the  *)
(* connection and the serial number of the execute call or login that      *)
(* created it, with its class).  An attribute that was never assigned is   *)
(* Unset, Python's None is NoneVal.                                        *)
(***************************************************************************)
NoneVal == [t |-> "None"]

Unset == [t |-> "unset"]

NoExc == [kind |-> "None"]

Ref(exc) == [kind |-> exc.kind, at |-> exc.at]

\* TypeError(message): a builtin exception has no commands attribute.
TypeErrorExc(at, message) ==
    [kind |-> "TypeError", at |-> at, message |-> message, commands |-> Unset]

\* socket.error / OSError with the text str(exc) gives.
OSErrorExc(at, text) == [kind |-> "OSError", at |-> at, text |-> text]

\* An exception of the transport's base class for a call made out of turn
\* (CannotSendRequest, CannotSendHeader, ResponseNotReady): neither a socket
\* error nor a ValueError, and none of the exceptions execute catches.
HTTPExceptionExc(at, name) == [kind |-> "HTTPException", at |-> at, name |-> name]

\* ValueError raised by json.loads (or by decode).
ValueErrorExc(at) == [kind |-> "ValueError", at |-> at]

\* ConnectionError.__init__(connection_type, message, commands=None)
ConnectionErrorExc(at, connection_type, message) ==
    [kind |-> "ConnectionError", at |-> at, message |-> message,
     connection_type |-> connection_type, commands |-> NoneVal]

\* re.sub(r"(?<=input=)[^ ]+", '<removed>)', message) on the chunks of the
\* message: after a chunk "input=" the longest run of chunks other than a
\* space, when it is not empty, becomes the one chunk '<removed>)'.
RECURSIVE SkipValue(_, _)
SkipValue(msg, i) ==
    IF i > Len(msg) \/ msg[i] = " " THEN i ELSE SkipValue(msg, i + 1)

RECURSIVE RedactInput(_, _)
RedactInput(msg, i) ==
    IF i > Len(msg) THEN <<>>
    ELSE IF msg[i] = "input=" /\ SkipValue(msg, i + 1) > i + 1
    THEN <<"input=", "<removed>)">> \o RedactInput(msg, SkipValue(msg, i + 1))
    ELSE <<msg[i]>> \o RedactInput(msg, i + 1)

\* Faulty variant of CommandErrorExc: code 1003 is formatted with the
\* command_error suffix as well.
CommandErrorExcWide(at, code, message, command_error, output) ==
    LET shaped == code \in {1000, 1001, 1002, 1003, 1004}
        text == IF ~shaped /\ code = 1005 THEN RedactInput(message, 1) ELSE message
        msg_fmt == IF shaped
                   THEN [fmt |-> "Error [{}]: {} [{}]", code |-> code,
                         text |-> message, cmd_err |-> command_error]
                   ELSE [fmt |-> "Error [{}]: {}", code |-> code,
                         text |-> text, cmd_err |-> Unset]
    IN [kind |-> "CommandError", at |-> at, error_code |-> code,
        error_text |-> text, command_error |-> command_error,
        commands |-> NoneVal, output |-> output, message |-> msg_fmt]

\* CommandError.__init__(code, message, command_error=..., output=...); the
\* formatted message keeps its format string and its arguments.
CommandErrorExc(at, code, message, command_error, output) ==
    LET shaped == code \in {1000, 1001, 1002, 1004}
        text == IF ~shaped /\ code = 1005 THEN RedactInput(message, 1) ELSE message
        msg_fmt == IF shaped
                   THEN [fmt |-> "Error [{}]: {} [{}]", code |-> code,
                         text |-> message, cmd_err |-> command_error]
                   ELSE [fmt |-> "Error [{}]: {}", code |-> code,
                         text |-> text, cmd_err |-> Unset]
    IN [kind |-> "CommandError", at |-> at, error_code |-> code,
        error_text |-> text, command_error |-> command_error,
        commands |-> NoneVal, output |-> output, message |-> msg_fmt]

\* CommandError.get_trace: the entries appended, or the exception the loop
\* raises (enumerate(None), commands that cannot be indexed, an index past
\* the commands).  commands is a list or a value that is no sequence.  index ends as the
\* last position of output, or None when output is empty; "if index:" is
\* false for None and for 0.
TraceEntry(command, out) == [command |-> command, output |-> out]

get_trace(exc) ==
    IF exc.output = NoneVal \/ exc.commands.t # "list"
    THEN [raised |-> "TypeError", trace |-> <<>>]
    ELSE
    LET out == exc.output.items
        cmds == exc.commands.items
        k == Len(out)
        head == [i \in 1..k |-> TraceEntry(cmds[i], out[i])]
        index == k - 1
        truthy == k > 0 /\ index # 0
        tail == IF truthy
                THEN [j \in 1..(Len(cmds) - k) |-> TraceEntry(cmds[k + j], NoneVal)]
                ELSE <<>>
    IN IF k > Len(cmds) THEN [raised |-> "IndexError", trace |-> <<>>]
       ELSE [raised |-> "None", trace |-> head \o tail]

\* Faulty variant of _parse_error_message: out loses the last entry of data.
ParseErrorDropLast(message) ==
    LET error == Get(message, "error")
        hasData == Has(error, "data")
        data == Get(error, "data")
    IN [code |-> Get(error, "code").n,
        msg |-> Get(error, "message").s,
        err |-> NoneVal,
        out |-> IF hasData /\ Len(data.items) > 0
                THEN List(SubSeq(data.items, 1, Len(data.items) - 1))
                ELSE IF hasData THEN data ELSE NoneVal]

\* _parse_error_message(message): (code, msg, err, out).  err joins
\* "key: repr(value)" of every entry of every dict of data, in order.
RECURSIVE JoinErr(_, _)
JoinErr(data, i) ==
    IF i > Len(data) THEN <<>>
    ELSE [j \in 1..Len(data[i].items) |->
            [k |-> data[i].items[j][1], repr |-> data[i].items[j][2]]]
         \o JoinErr(data, i + 1)

_parse_error_message(message) ==
    LET error == Get(message, "error")
        hasData == Has(error, "data")
    IN [code |-> Get(error, "code").n,
        msg |-> Get(error, "message").s,
        err |-> IF hasData THEN [t |-> "text", parts |-> JoinErr(Get(error, "data").items, 1)]
                ELSE NoneVal,
        out |-> IF hasData THEN Get(error, "data") ELSE NoneVal]

\* re.search("unexpected keyword argument '(.*)'", msg): the first chunk that
\* ends the fixed text with its opening quote, and the last closing quote
\* after it; the text with the hint of send appended when there is a match.
KeywordOpen == "unexpected keyword argument '"

HasKeywordMatch(msg) ==
    \E i \in 1..Len(msg) : msg[i] = KeywordOpen /\ \E j \in (i + 1)..Len(msg) : msg[j] = "'"

WithKeywordHint(msg) ==
    IF ~HasKeywordMatch(msg) THEN msg
    ELSE LET i == CHOOSE a \in 1..Len(msg) :
                    /\ msg[a] = KeywordOpen
                    /\ \E j \in (a + 1)..Len(msg) : msg[j] = "'"
                    /\ \A b \in 1..(a - 1) :
                          ~(msg[b] = KeywordOpen /\ \E j \in (b + 1)..Len(msg) : msg[j] = "'")
             j == CHOOSE a \in (i + 1)..Len(msg) :
                    msg[a] = "'" /\ \A b \in (a + 1)..Len(msg) : msg[b] # "'"
         IN msg \o <<". ">> \o SubSeq(msg, i + 1, j - 1)
                \o <<" parameter is not supported in this version of EOS.">>

(***************************************************************************)
(* Bounds of the model and the values the callers and the device choose    *)
(* from.                                                                   *)
(***************************************************************************)
MaxCmds == 2

MaxCalls == 2

Conns == {"c1", "c2"}

Callers == {"A", "B"}

EnableCmd(v) == Dict(<< <<"cmd", Str("enable")>>, <<"input", Str(v)>> >>)

CmdAlphabet == {Str("configure"), Str("bad command"), EnableCmd("p1"), EnableCmd("p2")}

RECURSIVE SeqsUpTo(_, _)
SeqsUpTo(S, n) ==
    IF n = 0 THEN {<<>>}
    ELSE LET shorter == SeqsUpTo(S, n - 1)
         IN shorter \cup {Append(q, x) : q \in shorter, x \in S}

\* What a caller passes as commands: a list of commands, or a value that is
\* not iterable.
CommandInputs == {List(q) : q \in SeqsUpTo(CmdAlphabet, MaxCmds)} \cup {Num(5)}

\* The encoding and the keyword arguments of a call.
CallArgs ==
    {[encoding |-> "json", kwargs |-> Dict(<<>>)],
     [encoding |-> "text",
      kwargs |-> Dict(<< <<"reqid", Num(7)>>, <<"autoComplete", Bool(TRUE)>> >>)],
     [encoding |-> "xml", kwargs |-> Dict(<<>>)]}

Username == "admin"

Password == "secret"

(***************************************************************************)
(* request() and what it calls.                                            *)
(***************************************************************************)
\* pyeapi.utils.make_iterable: a str or a dict is wrapped into a list, a
\* value that is not iterable raises TypeError.
make_iterable(value) ==
    IF value.t \in {"str", "dict"} THEN [ok |-> TRUE, v |-> List(<<value>>)]
    ELSE IF value.t \in {"list", "tuple"} THEN [ok |-> TRUE, v |-> value]
    ELSE [ok |-> FALSE, v |-> value]

\* id(self): the identity token of a connection object.
IdOf(c) == IF c = "c1" THEN 140001 ELSE 140002

\* Faulty variant of PyStr: the value is used as it is.
PyStrRaw(v) == v

\* str(x) for the values a request id takes.
PyStr(v) == IF v.t = "num" THEN Str(ToString(v.n)) ELSE v

\* request(commands, encoding, reqid, **kwargs): the JSON text of the
\* envelope, or the TypeError of make_iterable.
request(c, commands, encoding, kwargs) ==
    LET cmds == make_iterable(commands)
        reqid == IF Has(kwargs, "reqid") /\ Get(kwargs, "reqid") # Null
                 THEN Get(kwargs, "reqid") ELSE Num(IdOf(c))
        p0 == Dict(<< <<"version", Num(1)>>, <<"cmds", cmds.v>>,
                      <<"format", Str(encoding)>> >>)
        p1 == IF Has(kwargs, "autoComplete")
              THEN Put(p0, "autoComplete", Get(kwargs, "autoComplete")) ELSE p0
        params == IF Has(kwargs, "expandAliases")
                  THEN Put(p1, "expandAliases", Get(kwargs, "expandAliases")) ELSE p1
        streaming == IF Has(kwargs, "streaming") THEN Get(kwargs, "streaming")
                     ELSE Bool(FALSE)
    IN IF ~cmds.ok THEN [raised |-> TRUE, data |-> <<>>]
       ELSE [raised |-> FALSE,
             data |-> Dumps(Dict(<< <<"jsonrpc", Str("2.0")>>,
                                    <<"method", Str("runCmds")>>,
                                    <<"params", params>>,
                                    <<"id", PyStr(reqid)>>,
                                    <<"streaming", streaming>> >>))]

(***************************************************************************)
(* The connection classes and their string forms.                          *)
(***************************************************************************)
Classes == {"SocketEapiConnection", "HttpEapiConnection", "HttpEapiSessionConnection"}

DEFAULT_HTTP_PORT == 80

\* str(self.transport): SocketConnection.__str__ / HttpConnection.__str__
TransportStr(c, class) ==
    IF class = "SocketEapiConnection"
    THEN [fmt |-> "unix:%s", args |-> <<"/var/run/command-api.sock">>]
    ELSE [fmt |-> "http://%s:%s/%s", args |-> <<c, ToString(DEFAULT_HTTP_PORT), "/command-api">>]

\* EapiConnection.__str__
ConnStr(c, class) ==
    [fmt |-> "EapiConnection(transport=%s)", transport |-> TransportStr(c, class)]

\* EapiConnection.authentication: the Basic header of username:password.
BasicAuth(username, password) ==
    [header |-> "Authorization",
     value |-> [fmt |-> "Basic %s", b64 |-> <<username, ":", password>>]]

\* SessionApiConnection.authentication, on a 200: the Cookie header made of
\* the Set-Cookie header of the login response; output(header="", attrs=[])
\* keeps the morsels and drops their attributes.
SessionAuth(set_cookie) ==
    [header |-> "Cookie",
     value |-> IF set_cookie = NoneVal THEN [fmt |-> "cookie", morsels |-> <<>>]
               ELSE [fmt |-> "cookie", morsels |-> set_cookie.morsels]]

(***************************************************************************)
(* The device: what it answers to a request and to a login.                *)
(***************************************************************************)
Reason(status) ==
    CASE status = 200 -> "OK"
      [] status = 401 -> "Unauthorized"
      [] OTHER -> "Internal Server Error"

Statuses == {200, 401, 500}

\* The failures the device reports: code and message text.
MsgInvalid == <<"CLI command 2 of 2 'bad command' failed: invalid command">>


MsgKeyword == <<"runCmds() got an ", KeywordOpen, "autoComplete", "'">>

MsgPermission == <<"permission denied for enable", " ", "input=", "p1", " ", "rejected">>

Failures == {[code |-> 1002, message |-> MsgInvalid],
             [code |-> 1003, message |-> MsgKeyword],
             [code |-> 1005, message |-> MsgPermission]}

\* The outputs of the first k commands: one object each, the last with the
\* error texts of the command that failed.
DataOf(k) ==
    List([i \in 1..k |->
            IF i < k THEN Dict(<< <<"output", Num(i)>> >>)
            ELSE Dict(<< <<"errors", List(<<Str("invalid command")>>)>> >>)])

SuccessBody(id, n) ==
    Dict(<< <<"jsonrpc", Str("2.0")>>,
            <<"result", List([i \in 1..n |-> Dict(<< <<"output", Num(i)>> >>)])>>,
            <<"id", id>> >>)

\* data is NoneVal when the failure carries no data.
FailureBody(id, f, data) ==
    LET e0 == Dict(<< <<"code", Num(f.code)>>, <<"message", Txt(f.message)>> >>)
        error == IF data = NoneVal THEN e0 ELSE Put(e0, "data", data)
    IN Dict(<< <<"jsonrpc", Str("2.0")>>, <<"error", error>>, <<"id", id>> >>)

\* The data a failure may carry for a request of n commands: none, or the
\* outputs of k <= n commands when a command failed (code 1002), or an
\* empty list.
DataFor(f, n) ==
    IF f.code = 1002 THEN {NoneVal} \cup {DataOf(k) : k \in 0..n}
    ELSE {NoneVal, DataOf(0)}

\* The bodies the device may send for a request of n commands with this id:
\* the success response (with one result per command, or with one more: the
\* code does not look at the count), a failure response, and text that is
\* not JSON (an empty body, a body cut short).
BodiesAmong(id, n, failures) ==
    {Dumps(SuccessBody(id, n)), Dumps(SuccessBody(id, n + 1))}
    \cup UNION {{Dumps(FailureBody(id, f, d)) : d \in DataFor(f, n)} : f \in failures}
    \cup {<<>>,
          SubSeq(Dumps(SuccessBody(id, n)), 1, Len(Dumps(SuccessBody(id, n))) - 1)}

Bodies(id, n) == BodiesAmong(id, n, Failures)

\* A device: the statuses and the failures it answers with.  The answers of
\* a device to the request with this body: any status with any body.
AnyDevice == [statuses |-> Statuses, failures |-> Failures]

ResponsesOf(body, device) ==
    LET req == Loads(body).v
        id == Get(req, "id")
        n == Len(Get(Get(req, "params"), "cmds").items)
    IN {[status |-> st, reason |-> Reason(st), content |-> b] :
            st \in device.statuses, b \in BodiesAmong(id, n, device.failures)}

Responses(body) == ResponsesOf(body, AnyDevice)

NoResponse == [status |-> 0, reason |-> "", content |-> <<>>]

\* The Set-Cookie header of a login response, when it has one.
SetCookies == {NoneVal, [morsels |-> <<"Session=abc123">>, attrs |-> <<"Path=/">>]}

LoginStatuses == {200, 401}

(***************************************************************************)
(* State.  Per connection: the fields of EapiConnection (transport: the    *)
(* socket and the request state of the HTTP connection object), whether    *)
(* its constructor has run and with which class, the serial number of the  *)
(* last call on it, and the device's side of it (the logins it has served, *)
(* the cookie it has issued, the request it has received on the open       *)
(* socket).  Per caller: the frame of the call it is in, with what the     *)
(* call has done so far (requests sent, bodies read, the socket error the  *)
(* OS raised, whether json.loads ran on the response).                     *)
(***************************************************************************)
VARIABLES life, class, transport, error, socket_error, auth, calls, wire, frame,
          node, heap

vars == <<life, class, transport, error, socket_error, auth, calls, wire, frame,
          node, heap>>

ClosedTransport == [sock |-> FALSE, state |-> "Idle", req |-> NoneVal]

NoWire == [logins |-> 0, issued |-> NoneVal, inflight |-> NoneVal]

IdleFrame ==
    [pc |-> "idle", self |-> "none", op |-> "none", at |-> NoneVal,
     commands |-> NoneVal, encoding |-> "", kwargs |-> NoneVal,
     data |-> <<>>, logged |-> NoneVal, sent |-> 0, reads |-> 0, os |-> NoExc,
     response |-> NoResponse, parsed |-> FALSE, exc |-> NoExc, result |-> NoneVal,
     nop |-> "none", narg |-> NoneVal]

\* No Node has been made: Node.__init__ sets _running and _startup to None.
NoNode == [life |-> "none", python |-> 0, _running |-> NoneVal, _startup |-> NoneVal]

\* The list object a caller keeps and passes to Node.config: what the caller
\* put in it (given) and what it holds now (items).
NoList == [made |-> FALSE, given |-> <<>>, items |-> <<>>]

\* A caller holds the outcome of a call: what it returned, or what it raised.
Resting == {"returned", "raised"}

Init ==
    /\ life = [c \in Conns |-> "none"]
    /\ class = [c \in Conns |-> "none"]
    /\ transport = [c \in Conns |-> ClosedTransport]
    /\ error = [c \in Conns |-> NoneVal]
    /\ socket_error = [c \in Conns |-> NoneVal]
    /\ auth = [c \in Conns |-> NoneVal]
    /\ calls = [c \in Conns |-> 0]
    /\ wire = [c \in Conns |-> NoWire]
    /\ frame = [t \in Callers |-> IdleFrame]
    /\ node = NoNode
    /\ heap = NoList

\* Faulty variant of SetAttr: the attribute is one value of the class, which
\* every connection shares.
SetAttrOfClass(slots, c, v) == [x \in DOMAIN slots |-> v]

\* self.<attribute> = v: __init__ makes transport, error, socket_error and
\* _auth attributes of the instance, so an assignment in a method changes the
\* attribute of this connection only.
SetAttr(slots, c, v) == [slots EXCEPT ![c] = v]

(***************************************************************************)
(* Construction.  EapiConnection.__init__ sets the fields, the subclass    *)
(* makes the transport and calls authentication; for a session class that  *)
(* is the login exchange of SessionApiConnection.authentication.           *)
(***************************************************************************)
\* Faulty variant of HttpRequest: the body that goes out is the logged copy.
HttpRequestLogged(path, ctype, authHeader, body) ==
    [method |-> "POST", path |-> path,
     headers |-> [ctype |-> ctype, clen |-> Len(_sanitize_request(body)),
                  auth |-> authHeader],
     body |-> _sanitize_request(body)]

\* A request as the transport buffers and sends it.
HttpRequest(path, ctype, authHeader, body) ==
    [method |-> "POST", path |-> path,
     headers |-> [ctype |-> ctype, clen |-> Len(body), auth |-> authHeader],
     body |-> body]

LoginRequest ==
    HttpRequest("/login", "application/json", NoneVal,
                Dumps(Dict(<< <<"username", Str(Username)>>,
                              <<"password", Str(Password)>> >>)))

NewFrom(t, c, classes) ==
    /\ frame[t].pc = "idle"
    /\ life[c] = "none"
    /\ \E k \in classes :
        /\ class' = [class EXCEPT ![c] = k]
        /\ error' = [error EXCEPT ![c] = NoneVal]
        /\ socket_error' = [socket_error EXCEPT ![c] = NoneVal]
        /\ IF k = "HttpEapiSessionConnection"
           THEN /\ life' = [life EXCEPT ![c] = "init"]
                /\ auth' = [auth EXCEPT ![c] = NoneVal]
                /\ transport' = [transport EXCEPT ![c] =
                                    [sock |-> FALSE, state |-> "Started", req |-> LoginRequest]]
                /\ frame' = [frame EXCEPT ![t] =
                                [IdleFrame EXCEPT !.pc = "login_endheaders", !.self = c,
                                                  !.op = "new",
                                                  !.at = [conn |-> c, call |-> 0]]]
           ELSE /\ life' = [life EXCEPT ![c] = "ready"]
                /\ auth' = [auth EXCEPT ![c] =
                               IF k = "HttpEapiConnection"
                               THEN BasicAuth(Username, Password) ELSE NoneVal]
                /\ transport' = [transport EXCEPT ![c] = ClosedTransport]
                /\ frame' = [frame EXCEPT ![t] =
                                [IdleFrame EXCEPT !.pc = "returned", !.self = c, !.op = "new"]]
    /\ UNCHANGED <<node, heap, calls, wire>>

New(t, c) == NewFrom(t, c, Classes)

\* Faulty variant of CloseTransport: the cleanup does not close.
CloseTransportLeak(tr) == tr

\* transport.close(): the socket is released, the connection object is idle.
CloseTransport(tr) == ClosedTransport

\* transport.endheaders(message_body=data): the socket is opened when there
\* is none and the buffered request is sent.  The OS may refuse the
\* connection, or fail the send on the open socket.
EndHeadersOutcomes == {"ok", "connect_fails", "send_fails"}

OSErrorText(step) ==
    CASE step = "connect_fails" -> "[Errno 111] Connection refused"
      [] step = "send_fails" -> "[Errno 32] Broken pipe"
      [] step = "getresponse" -> "timed out"
      [] OTHER -> "[Errno 104] Connection reset by peer"

\* Faulty variant of SocketFailure: send starts over after a socket error.
SocketFailureRetry(f, pc, step) ==
    [f EXCEPT !.pc = IF f.op = "execute" THEN "send" ELSE pc,
              !.exc = IF f.op = "execute" THEN NoExc
                      ELSE OSErrorExc(f.at, OSErrorText(step)),
              !.os = OSErrorExc(f.at, OSErrorText(step))]

\* A transport call raises a socket error: the call goes to its handlers.
SocketFailure(f, pc, step) ==
    [f EXCEPT !.pc = pc, !.exc = OSErrorExc(f.at, OSErrorText(step)),
              !.os = OSErrorExc(f.at, OSErrorText(step))]

LoginEndHeaders(t) ==
    LET c == frame[t].self IN
    /\ frame[t].pc = "login_endheaders"
    /\ \E o \in EndHeadersOutcomes :
        IF o = "ok"
        THEN /\ transport' = [transport EXCEPT ![c].sock = TRUE, ![c].state = "Sent"]
             /\ wire' = [wire EXCEPT ![c].logins = @ + 1, ![c].inflight = transport[c].req]
             /\ frame' = [frame EXCEPT ![t].pc = "login_getresponse", ![t].sent = @ + 1]
        ELSE /\ transport' = [transport EXCEPT ![c].sock = (o = "send_fails")]
             /\ frame' = [frame EXCEPT ![t] = SocketFailure(@, "login_except", o)]
             /\ UNCHANGED wire
    /\ UNCHANGED <<node, heap, life, class, error, socket_error, auth, calls>>

\* A transport call raises ValueError (a read on a file object that is
\* closed): the call goes to its handlers.
ValueFailure(f, pc) == [f EXCEPT !.pc = pc, !.exc = ValueErrorExc(f.at)]

\* Faulty variant of LoginOutcome: the status of the login response is not
\* looked at.
LoginOutcomeAnyStatus(at, me, resp, set_cookie) ==
    [exc |-> NoExc, retained |-> TRUE, auth |-> SessionAuth(set_cookie)]

\* if resp.status != 200: raise ConnectionError(str(self), reason. body);
\* else self._auth = ("Cookie", ...) from the Set-Cookie header.
LoginOutcome(at, me, resp, set_cookie) ==
    IF resp.status # 200
    THEN [exc |-> ConnectionErrorExc(at, me,
                     [fmt |-> "%s. %s", reason |-> resp.reason,
                      content |-> resp.content]),
          retained |-> FALSE, auth |-> NoneVal]
    ELSE [exc |-> NoExc, retained |-> TRUE, auth |-> SessionAuth(set_cookie)]

\* resp = getresponse(), then the test of the status; the body is read for
\* the message of the ConnectionError.  getresponse and read may raise a
\* socket error or ValueError.
LoginGetResponse(t) ==
    LET c == frame[t].self
        me == ConnStr(c, class[c])
    IN
    /\ frame[t].pc = "login_getresponse"
    /\ \/ /\ frame' = [frame EXCEPT ![t] = SocketFailure(@, "login_except", "getresponse")]
          /\ UNCHANGED <<node, heap, auth, wire>>
       \/ /\ frame' = [frame EXCEPT ![t] = ValueFailure(@, "login_except")]
          /\ UNCHANGED <<node, heap, auth, wire>>
       \/ \E st \in LoginStatuses, sc \in SetCookies :
            LET resp == [status |-> st, reason |-> Reason(st), content |-> <<>>]
                out == LoginOutcome(frame[t].at, me, resp, sc)
            IN IF out.retained
               THEN /\ auth' = [auth EXCEPT ![c] = out.auth]
                    /\ wire' = [wire EXCEPT ![c].issued = sc]
                    /\ frame' = [frame EXCEPT ![t].pc = "login_finally",
                                              ![t].response = resp]
               ELSE /\ \/ frame' = [frame EXCEPT ![t].pc = "login_finally",
                                                 ![t].reads = @ + 1,
                                                 ![t].response = resp,
                                                 ![t].exc = out.exc]
                       \/ frame' = [frame EXCEPT ![t] =
                                        SocketFailure([@ EXCEPT !.response = resp],
                                                      "login_except", "read")]
                    /\ UNCHANGED <<node, heap, auth, wire>>
    /\ UNCHANGED <<node, heap, life, class, transport, error, socket_error, calls>>

\* Faulty variant of SocketErrorMessage: the text of the OS error is lost.
SocketErrorMessageGeneric(prefix, text) == [fmt |-> prefix, text |-> ""]

\* Faulty variant of Handled: the ValueError handler raises the ValueError on.
HandledReraise(exc, me, prefix) ==
    IF exc.kind = "OSError"
    THEN [socket_error |-> Ref(exc), error |-> Ref(exc),
          raise |-> ConnectionErrorExc(exc.at, me, [fmt |-> prefix, text |-> exc.text])]
    ELSE [socket_error |-> NoneVal, error |-> Ref(exc), raise |-> exc]

\* The handlers of a socket error and of a ValueError, in send and in the
\* login alike: the fields they set and the ConnectionError they raise.
SocketErrorMessage(prefix, text) == [fmt |-> prefix, text |-> text]

UnableMessage == [fmt |-> "unable to connect to eAPI"]

Handled(exc, me, prefix) ==
    IF exc.kind = "OSError"
    THEN [socket_error |-> Ref(exc), error |-> Ref(exc),
          raise |-> ConnectionErrorExc(exc.at, me, SocketErrorMessage(prefix, exc.text))]
    ELSE [socket_error |-> NoneVal, error |-> Ref(exc),
          raise |-> ConnectionErrorExc(exc.at, me, UnableMessage)]

LoginExcept(t) ==
    LET c == frame[t].self
        h == Handled(frame[t].exc, ConnStr(c, class[c]),
                     "Socket error during eAPI authentication: %s")
    IN
    /\ frame[t].pc = "login_except"
    /\ socket_error' = [socket_error EXCEPT ![c] = h.socket_error]
    /\ error' = [error EXCEPT ![c] = h.error]
    /\ frame' = [frame EXCEPT ![t].pc = "login_finally", ![t].exc = h.raise]
    /\ UNCHANGED <<node, heap, life, class, transport, auth, calls, wire>>

\* finally: self.transport.close(); then __init__ returns, or the
\* exception leaves it and there is no connection object.
LoginFinally(t) ==
    LET c == frame[t].self IN
    /\ frame[t].pc = "login_finally"
    /\ transport' = [transport EXCEPT ![c] = CloseTransport(@)]
    /\ wire' = [wire EXCEPT ![c].inflight = NoneVal]
    /\ IF frame[t].exc = NoExc
       THEN /\ life' = [life EXCEPT ![c] = "ready"]
            /\ frame' = [frame EXCEPT ![t].pc = "returned"]
       ELSE /\ life' = [life EXCEPT ![c] = "failed"]
            /\ frame' = [frame EXCEPT ![t].pc = "raised"]
    /\ UNCHANGED <<node, heap, class, error, socket_error, auth, calls>>

(***************************************************************************)
(* execute and send, one action per step of the call.                      *)
(***************************************************************************)
\* Faulty variant of ValidEncodings: the validation lets "xml" through.
AnyEncoding == {"json", "text", "xml"}

ValidEncodings == {"json", "text"}

\* execute(commands, encoding, **kwargs) is called; the encoding is
\* validated before the try block is entered.  The caller takes the commands
\* and the arguments from these sets, and makes the call when fewer than
\* limit calls were made on the connection.
\* The frame of a call of execute(commands, encoding, **kwargs) on
\* connection c: the encoding is validated, then the try block is entered.
CallFrame(c, at, commands, encoding, kwargs) ==
    LET called == [IdleFrame EXCEPT !.self = c, !.op = "execute", !.at = at,
                                    !.commands = commands,
                                    !.encoding = encoding,
                                    !.kwargs = kwargs]
    IN IF encoding \notin ValidEncodings
       THEN [called EXCEPT !.pc = "raised",
                !.exc = TypeErrorExc(at, "encoding must be one of [json, text]")]
       ELSE [called EXCEPT !.pc = "execute_try"]

ExecuteFrom(t, c, inputs, arguments, limit) ==
    /\ frame[t].pc = "idle"
    /\ life[c] = "ready"
    /\ calls[c] < limit
    /\ calls' = [calls EXCEPT ![c] = @ + 1]
    /\ \E commands \in inputs, args \in arguments :
        frame' = [frame EXCEPT ![t] =
                    CallFrame(c, [conn |-> c, call |-> calls[c] + 1],
                              commands, args.encoding, args.kwargs)]
    /\ UNCHANGED <<node, heap, life, class, transport, error, socket_error, auth, wire>>

Execute(t, c) == ExecuteFrom(t, c, CommandInputs, CallArgs, MaxCalls)

\* Faulty variant of ResetError: the slot keeps what it held.
ResetErrorKept(old) == old

\* self.error = None at the start of the try block.
ResetError(old) == NoneVal

\* try: self.error = None; request = self.request(...)
ExecuteTry(t) ==
    LET c == frame[t].self
        f == frame[t]
        req == request(c, f.commands, f.encoding, f.kwargs)
    IN
    /\ f.pc = "execute_try"
    /\ error' = SetAttr(error, c, ResetError(error[c]))
    /\ frame' = [frame EXCEPT ![t] =
            IF req.raised
            THEN [f EXCEPT !.pc = "execute_except",
                           !.exc = TypeErrorExc(f.at, "value must be an iterable object")]
            ELSE [f EXCEPT !.pc = "send", !.data = req.data]]
    /\ UNCHANGED <<node, heap, life, class, transport, socket_error, auth, calls, wire>>

\* Faulty variant of AuthHeader: the request goes out without credentials.
AuthHeaderNone(a) == NoneVal

\* if self._auth: self.transport.putheader(*self._auth)
AuthHeader(a) == a

\* send: the sanitized request is logged; putrequest and the putheader
\* calls buffer the request, with the authentication header when there is one.
SendPut(t) ==
    LET c == frame[t].self
        f == frame[t]
    IN
    /\ f.pc = "send"
    /\ IF transport[c].state = "Idle"
       THEN /\ transport' = [transport EXCEPT ![c].state = "Started",
                    ![c].req = HttpRequest("/command-api", "application/json-rpc",
                                           AuthHeader(auth[c]), f.data)]
            /\ frame' = [frame EXCEPT ![t].pc = "send_endheaders",
                                      ![t].logged = _sanitize_request(f.data)]
       ELSE /\ frame' = [frame EXCEPT ![t].pc = "send_finally",
                                      ![t].logged = _sanitize_request(f.data),
                                      ![t].exc = HTTPExceptionExc(f.at, "CannotSendRequest")]
            /\ UNCHANGED transport
    /\ UNCHANGED <<node, heap, life, class, error, socket_error, auth, calls, wire>>

SendEndHeaders(t) ==
    LET c == frame[t].self IN
    /\ frame[t].pc = "send_endheaders"
    /\ IF transport[c].state = "Started"
       THEN \E o \in EndHeadersOutcomes :
                IF o = "ok"
                THEN /\ transport' = [transport EXCEPT ![c].sock = TRUE, ![c].state = "Sent"]
                     /\ wire' = [wire EXCEPT ![c].inflight = transport[c].req]
                     /\ frame' = [frame EXCEPT ![t].pc = "send_getresponse",
                                               ![t].sent = @ + 1]
                ELSE /\ transport' = [transport EXCEPT ![c].sock = (o = "send_fails")]
                     /\ frame' = [frame EXCEPT ![t] = SocketFailure(@, "send_except", o)]
                     /\ UNCHANGED wire
       ELSE /\ frame' = [frame EXCEPT ![t].pc = "send_finally",
                              ![t].exc = HTTPExceptionExc(frame[t].at, "CannotSendHeader")]
            /\ UNCHANGED <<node, heap, transport, wire>>
    /\ UNCHANGED <<node, heap, life, class, error, socket_error, auth, calls>>

\* Another call on connection c holds a response of the transport that it
\* has not read yet.
Unread(t, c) ==
    \E u \in Callers \ {t} : frame[u].self = c /\ frame[u].pc = "send_read"

\* response = self.transport.getresponse(): the status line and the headers
\* of the device's answer, or a socket error.
SendGetResponseFrom(t, device) ==
    LET c == frame[t].self IN
    /\ frame[t].pc = "send_getresponse"
    /\ IF transport[c].state = "Sent"
       THEN \/ /\ frame' = [frame EXCEPT ![t] =
                                SocketFailure(@, "send_except", "getresponse")]
               /\ UNCHANGED transport
            \/ /\ Unread(t, c)
               /\ frame' = [frame EXCEPT ![t].pc = "send_finally",
                        ![t].exc = HTTPExceptionExc(frame[t].at, "ResponseNotReady")]
               /\ UNCHANGED transport
            \/ \E r \in ResponsesOf(wire[c].inflight.body, device) :
                /\ frame' = [frame EXCEPT ![t].pc = "send_read", ![t].response = r]
                /\ transport' = [transport EXCEPT ![c].state = "Idle"]
       ELSE /\ frame' = [frame EXCEPT ![t].pc = "send_finally",
                        ![t].exc = HTTPExceptionExc(frame[t].at, "ResponseNotReady")]
            /\ UNCHANGED transport
    /\ UNCHANGED <<node, heap, life, class, error, socket_error, auth, calls, wire>>

SendGetResponse(t) == SendGetResponseFrom(t, AnyDevice)

\* Faulty variant of Classify: the status is not looked at before the body
\* is parsed.
ClassifyNo401(at, me, response) ==
    LET loaded == Loads(response.content)
        decoded == loaded.v
        pe == _parse_error_message(decoded)
    IN IF ~loaded.ok
       THEN [parsed |-> TRUE, result |-> NoneVal, exc |-> ValueErrorExc(at)]
       ELSE IF Has(decoded, "error")
       THEN [parsed |-> TRUE, result |-> NoneVal,
             exc |-> CommandErrorExc(at, pe.code, WithKeywordHint(pe.msg), pe.err, pe.out)]
       ELSE IF response.status = 401
       THEN [parsed |-> TRUE, result |-> NoneVal,
             exc |-> ConnectionErrorExc(at, me,
                        [fmt |-> "%s. %s", reason |-> response.reason,
                         content |-> response.content])]
       ELSE [parsed |-> TRUE, result |-> decoded, exc |-> NoExc]

\* Faulty variant of Classify: send returns the result list, not the
\* decoded response.
ClassifyResultOnly(at, me, response) ==
    LET loaded == Loads(response.content)
        decoded == loaded.v
        pe == _parse_error_message(decoded)
    IN IF response.status = 401
       THEN [parsed |-> FALSE, result |-> NoneVal,
             exc |-> ConnectionErrorExc(at, me,
                        [fmt |-> "%s. %s", reason |-> response.reason,
                         content |-> response.content])]
       ELSE IF ~loaded.ok
       THEN [parsed |-> TRUE, result |-> NoneVal, exc |-> ValueErrorExc(at)]
       ELSE IF Has(decoded, "error")
       THEN [parsed |-> TRUE, result |-> NoneVal,
             exc |-> CommandErrorExc(at, pe.code, WithKeywordHint(pe.msg), pe.err, pe.out)]
       ELSE [parsed |-> TRUE, result |-> Get(decoded, "result"), exc |-> NoExc]

\* What send does with the response it has read: ConnectionError on a 401,
\* else json.loads (ValueError on text that is not JSON), CommandError when
\* the decoded object has an error key, else the decoded object.
Classify(at, me, response) ==
    LET loaded == Loads(response.content)
        decoded == loaded.v
        pe == _parse_error_message(decoded)
    IN IF response.status = 401
       THEN [parsed |-> FALSE, result |-> NoneVal,
             exc |-> ConnectionErrorExc(at, me,
                        [fmt |-> "%s. %s", reason |-> response.reason,
                         content |-> response.content])]
       ELSE IF ~loaded.ok
       THEN [parsed |-> TRUE, result |-> NoneVal, exc |-> ValueErrorExc(at)]
       ELSE IF Has(decoded, "error")
       THEN [parsed |-> TRUE, result |-> NoneVal,
             exc |-> CommandErrorExc(at, pe.code, WithKeywordHint(pe.msg), pe.err, pe.out)]
       ELSE [parsed |-> TRUE, result |-> decoded, exc |-> NoExc]

\* response_content = response.read(), then the classification; a socket
\* error of read, and the ValueError of json.loads, go to the handlers.
SendRead(t) ==
    LET c == frame[t].self
        f == frame[t]
        got == Classify(f.at, ConnStr(c, class[c]), f.response)
    IN
    /\ f.pc = "send_read"
    /\ \/ frame' = [frame EXCEPT ![t] = SocketFailure(@, "send_except", "read")]
       \/ frame' = [frame EXCEPT ![t] =
                [f EXCEPT !.pc = IF got.exc.kind = "ValueError"
                                 THEN "send_except" ELSE "send_finally",
                          !.reads = @ + 1, !.parsed = got.parsed,
                          !.exc = got.exc, !.result = got.result]]
    /\ UNCHANGED <<node, heap, life, class, transport, error, socket_error, auth, calls, wire>>

\* except (socket.error, OSError) / except ValueError
SendExcept(t) ==
    LET c == frame[t].self
        h == Handled(frame[t].exc, ConnStr(c, class[c]),
                     "Socket error during eAPI connection: %s")
    IN
    /\ frame[t].pc = "send_except"
    /\ socket_error' = SetAttr(socket_error, c, h.socket_error)
    /\ error' = SetAttr(error, c, h.error)
    /\ frame' = [frame EXCEPT ![t].pc = "send_finally", ![t].exc = h.raise]
    /\ UNCHANGED <<node, heap, life, class, transport, auth, calls, wire>>

\* finally: self.transport.close(); then send returns the decoded response,
\* which execute returns, or the exception reaches the handler of execute.
\* Closing the transport closes a response that another call has not read
\* yet, unless the device's answer had closed the connection already: that
\* call then reads an empty body.
SendFinally(t) ==
    LET c == frame[t].self IN
    /\ frame[t].pc = "send_finally"
    /\ transport' = SetAttr(transport, c, CloseTransport(transport[c]))
    /\ wire' = [wire EXCEPT ![c].inflight = NoneVal]
    /\ \E closes \in IF Unread(t, c) THEN BOOLEAN ELSE {FALSE} :
        frame' = [u \in Callers |->
            IF u = t
            THEN [frame[t] EXCEPT !.pc = IF frame[t].exc = NoExc
                                        THEN "returned" ELSE "execute_except"]
            ELSE IF closes /\ frame[u].self = c /\ frame[u].pc = "send_read"
            THEN [frame[u] EXCEPT !.response.content = <<>>]
            ELSE frame[u]]
    /\ UNCHANGED <<node, heap, life, class, error, socket_error, auth, calls>>

\* Faulty variant of Caught: execute does not catch TypeError.
CaughtNoTypeError == {"ConnectionError", "CommandError"}

\* except (ConnectionError, CommandError, TypeError) as exc:
\*     exc.commands = commands; self.error = exc; raise
Caught == {"ConnectionError", "CommandError", "TypeError"}

\* Faulty variant of WithCommands: the commands are not attached.
WithCommandsDropped(exc, commands) == exc

WithCommands(exc, commands) ==
    IF exc.kind \in Caught THEN [exc EXCEPT !.commands = commands] ELSE exc

ExecuteExcept(t) ==
    LET c == frame[t].self
        f == frame[t]
    IN
    /\ f.pc = "execute_except"
    /\ error' = SetAttr(error, c, IF f.exc.kind \in Caught THEN Ref(f.exc) ELSE error[c])
    /\ frame' = [frame EXCEPT ![t].pc = "raised",
                              ![t].exc = WithCommands(f.exc, f.commands)]
    /\ UNCHANGED <<node, heap, life, class, transport, socket_error, auth, calls, wire>>

\* The caller goes on after a call: it takes response['result'] or handles
\* the exception, and the frame of the call is gone.
Resume(t) ==
    /\ frame[t].pc \in Resting
    /\ frame' = [frame EXCEPT ![t] = IdleFrame]
    /\ UNCHANGED <<node, heap, life, class, transport, error, socket_error, auth, calls, wire>>

(***************************************************************************)
(* One caller uses one connection: it constructs it, then calls execute    *)
(* on it, one call after the other.                                        *)
(***************************************************************************)
Exchange(t, device) ==
    \/ LoginEndHeaders(t)
    \/ LoginGetResponse(t)
    \/ LoginExcept(t)
    \/ LoginFinally(t)
    \/ ExecuteTry(t)
    \/ SendPut(t)
    \/ SendEndHeaders(t)
    \/ SendGetResponseFrom(t, device)
    \/ SendRead(t)
    \/ SendExcept(t)
    \/ SendFinally(t)
    \/ ExecuteExcept(t)

StepWith(t, device) ==
    \/ Resume(t)
    \/ Exchange(t, device)

Step(t) == StepWith(t, AnyDevice)

Next ==
    \/ New("A", "c1")
    \/ Execute("A", "c1")
    \/ Step("A")

Spec == Init /\ [][Next]_vars

(***************************************************************************)
(* Two callers, each with a connection of its own, with no coordination:   *)
(* the steps of the two interleave in every order.  Each constructs its    *)
(* connection and calls execute on it, against a device that answers 200   *)
(* or 401 with a result, a permission failure or a malformed body.         *)
(***************************************************************************)
PairClasses == {"HttpEapiConnection", "HttpEapiSessionConnection"}

PairInputs == {List(<<EnableCmd("p1")>>), Num(5)}

PairArgs == {[encoding |-> e, kwargs |-> Dict(<<>>)] : e \in {"json", "xml"}}

PairDevice ==
    [statuses |-> {200, 401},
     failures |-> {[code |-> 1005, message |-> MsgPermission]}]

ConnOf(t) == IF t = "A" THEN "c1" ELSE "c2"

PairNext ==
    \/ NewFrom("A", "c1", PairClasses)
    \/ NewFrom("B", "c2", PairClasses)
    \/ ExecuteFrom("A", "c1", PairInputs, PairArgs, MaxCalls - 1)
    \/ ExecuteFrom("B", "c2", PairInputs, PairArgs, MaxCalls - 1)
    \/ StepWith("A", PairDevice)
    \/ StepWith("B", PairDevice)

PairSpec == Init /\ [][PairNext]_vars

(***************************************************************************)
(* Two callers share one connection with no serialization: caller A        *)
(* constructs it, then the execute calls of A and B on it interleave in    *)
(* every order.                                                            *)
(***************************************************************************)
SharedNext ==
    \/ NewFrom("A", "c1", PairClasses)
    \/ ExecuteFrom("A", "c1", PairInputs, PairArgs, MaxCalls)
    \/ ExecuteFrom("B", "c1", PairInputs, PairArgs, MaxCalls)
    \/ StepWith("A", PairDevice)
    \/ StepWith("B", PairDevice)

SharedSpec == Init /\ [][SharedNext]_vars

(***************************************************************************)
(* Node: a connection with the running and the startup configuration       *)
(* cached.  A caller makes a Node on its connection and then reads the     *)
(* two properties and calls config and enable in any order.  Each of them  *)
(* that reaches the device does so through one call of execute on the      *)
(* connection; the frame keeps the Node method under way (nop) and its     *)
(* argument (narg) until execute has exited.                               *)
(***************************************************************************)
\* Node(connection).  node.py names basestring, which Python 2 has and
\* Python 3 has not: the interpreter the Node runs on is either.
NewNode(t, c) ==
    /\ frame[t].pc = "idle"
    /\ life[c] = "ready"
    /\ node.life = "none"
    /\ \E python \in {2, 3} :
        node' = [NoNode EXCEPT !.life = "ready", !.python = python]
    /\ UNCHANGED <<life, class, transport, error, socket_error, auth, calls, wire, frame,
                   heap>>

\* An exception raised by the Node's own code.
NodeExc(kind, c) == [kind |-> kind, at |-> [conn |-> c, call |-> calls[c]]]

\* The frame of a Node method that has exited without a call of execute
\* under way.
NodeFrame(c, op, pc, exc, result) ==
    [IdleFrame EXCEPT !.self = c, !.op = op, !.pc = pc, !.exc = exc, !.result = result]

\* Config(text), of pyeapi.config.
Config(text) == [t |-> "Config", text |-> text]

\* str.strip() on the chunks of a text: the white space at its ends goes.
RECURSIVE StripLeft(_)
StripLeft(chunks) ==
    IF chunks # <<>> /\ Head(chunks) \in {" ", "\n", ""} THEN StripLeft(Tail(chunks))
    ELSE chunks

RECURSIVE StripRight(_)
StripRight(chunks) ==
    IF chunks # <<>> /\ chunks[Len(chunks)] \in {" ", "\n", ""}
    THEN StripRight(SubSeq(chunks, 1, Len(chunks) - 1))
    ELSE chunks

Strip(v) == Txt(StripRight(StripLeft(v.s)))

\* get_config: command = 'show %s' % config, then ' %s' % flag for each flag.
ShowCommand(config, flags) ==
    LET F[i \in 0..Len(flags)] ==
            IF i = 0 THEN <<"show ", config>> ELSE F[i - 1] \o <<" ", flags[i]>>
    IN Txt(F[Len(flags)])

ConfigOf(nop) == IF nop = "running_config" THEN "running-config" ELSE "startup-config"

\* Faulty variant of IsCached: the cached value is never used.
NeverCached(value) == FALSE

\* if self._running is not None: return self._running
IsCached(value) == value # NoneVal

\* enable(commands, serialization): isinstance(commands, basestring) raises
\* NameError on Python 3; a string becomes a one-element list; a value that
\* is not iterable is a TypeError; else execute is called.
EnableFrame(c, nop, narg, commands, serialization) ==
    IF node.python = 3
    THEN NodeFrame(c, nop, "raised", NodeExc("NameError", c), NoneVal)
    ELSE IF commands.t \notin {"str", "list", "dict", "tuple"}
    THEN NodeFrame(c, nop, "raised",
                   TypeErrorExc([conn |-> c, call |-> calls[c]],
                                "commands must be an iterable object"),
                   NoneVal)
    ELSE [CallFrame(c, [conn |-> c, call |-> calls[c] + 1],
                    IF commands.t = "str" THEN List(<<commands>>) ELSE commands,
                    serialization, Dict(<<>>))
            EXCEPT !.nop = nop, !.narg = narg]

\* The calls of execute made on a connection: the frame is a call of
\* execute exactly when the Node method got as far as it.
Calls(c, f) == IF f.op = "execute" THEN [calls EXCEPT ![c] = @ + 1] ELSE calls

\* The properties running_config and startup_config.
Access(t, c, limit) ==
    /\ frame[t].pc = "idle"
    /\ node.life = "ready"
    /\ calls[c] < limit
    /\ \E nop \in {"running_config", "startup_config"} :
        LET cached == IF nop = "running_config" THEN node._running ELSE node._startup
            f == IF IsCached(cached)
                 THEN NodeFrame(c, nop, "returned", NoExc, cached)
                 ELSE EnableFrame(c, nop, NoneVal,
                                  ShowCommand(ConfigOf(nop), <<"all">>), "text")
        IN /\ frame' = [frame EXCEPT ![t] = f]
           /\ calls' = Calls(c, f)
    /\ UNCHANGED <<life, class, transport, error, socket_error, auth, wire, node, heap>>

\* What a caller passes to enable and to config: a command, a list of
\* commands, a value that is not iterable.
NodeLists == SeqsUpTo({Str("vlan 10"), Str("name ten")}, MaxCmds) \ {<<>>}

NodeEnable(t, c, limit) ==
    /\ frame[t].pc = "idle"
    /\ node.life = "ready"
    /\ calls[c] < limit
    /\ \E commands \in {Str("show version"), List(<<Str("show version")>>), Num(5)} :
        LET f == EnableFrame(c, "enable", [given |-> commands], commands, "json")
        IN /\ frame' = [frame EXCEPT ![t] = f]
           /\ calls' = Calls(c, f)
    /\ UNCHANGED <<life, class, transport, error, socket_error, auth, wire, node, heap>>

\* config(commands): a string becomes a new one-element list; then
\* commands.insert(0, 'configure') on the list, which is the caller's own
\* list object when the caller passed a list; then enable(commands).  The
\* caller passes a command, a list it has just made, the list object it
\* passed before, or a value that is not iterable.
NodeConfig(t, c, limit) ==
    /\ frame[t].pc = "idle"
    /\ node.life = "ready"
    /\ calls[c] < limit
    /\ \E arg \in {[how |-> "str", given |-> <<Str("vlan 10")>>],
                    [how |-> "value", given |-> <<>>]}
                   \cup {[how |-> "list", given |-> q] : q \in NodeLists}
                   \cup {[how |-> "same", given |-> heap.given] : x \in {heap.made} \ {FALSE}} :
        LET before == IF arg.how = "same" THEN heap.items ELSE arg.given
            after == <<Str("configure")>> \o before
            f == IF node.python = 3
                 THEN NodeFrame(c, "config", "raised", NodeExc("NameError", c), NoneVal)
                 ELSE IF arg.how = "value"
                 THEN NodeFrame(c, "config", "raised",
                                TypeErrorExc([conn |-> c, call |-> calls[c]],
                                             "commands must be an iterable object"),
                                NoneVal)
                 ELSE EnableFrame(c, "config", arg, List(after), "json")
        IN /\ frame' = [frame EXCEPT ![t] = f]
           /\ calls' = Calls(c, f)
           /\ heap' = IF arg.how \in {"list", "same"}
                      THEN [made |-> TRUE, given |-> arg.given,
                            items |-> IF f.op = "execute" THEN after ELSE before]
                      ELSE heap
    /\ UNCHANGED <<life, class, transport, error, socket_error, auth, wire, node>>

\* execute has exited under a Node method.  An exception goes on to the
\* caller.  Else enable returns response['result']; config pops the first
\* entry off it and returns the rest; get_config makes the Config of
\* str(result[0]['output']).strip(), which the property stores in the Node
\* and returns.
NodeReturn(t) ==
    LET f == frame[t]
        c == f.self
        response == f.result
        result == Get(response, "result")
        raise(kind) == NodeFrame(c, f.nop, "raised", NodeExc(kind, c), NoneVal)
        return(value) == NodeFrame(c, f.nop, "returned", NoExc, value)
        fetched == Config(Strip(PyStr(Get(result.items[1], "output"))))
    IN
    /\ f.op = "execute"
    /\ f.pc \in Resting
    /\ IF f.pc = "raised"
       THEN /\ frame' = [frame EXCEPT ![t] =
                            NodeFrame(c, f.nop, "raised", f.exc, NoneVal)]
            /\ UNCHANGED node
       ELSE IF ~Has(response, "result")
       THEN /\ frame' = [frame EXCEPT ![t] = raise("KeyError")]
            /\ UNCHANGED node
       ELSE IF f.nop = "enable"
       THEN /\ frame' = [frame EXCEPT ![t] = return(result)]
            /\ UNCHANGED node
       ELSE IF result.items = <<>>
       THEN /\ frame' = [frame EXCEPT ![t] = raise("IndexError")]
            /\ UNCHANGED node
       ELSE IF f.nop = "config"
       THEN /\ frame' = [frame EXCEPT ![t] = return(List(Tail(result.items)))]
            /\ UNCHANGED node
       ELSE IF ~Has(result.items[1], "output")
       THEN /\ frame' = [frame EXCEPT ![t] = raise("KeyError")]
            /\ UNCHANGED node
       ELSE /\ frame' = [frame EXCEPT ![t] = return(fetched)]
            /\ node' = IF f.nop = "running_config"
                       THEN [node EXCEPT !._running = fetched]
                       ELSE [node EXCEPT !._startup = fetched]
    /\ UNCHANGED <<life, class, transport, error, socket_error, auth, calls, wire, heap>>

\* The caller goes on after a Node method has exited.
NodeResume(t) ==
    /\ frame[t].op # "execute"
    /\ Resume(t)

NodeClasses == {"HttpEapiConnection", "HttpEapiSessionConnection"}

NodeDevice ==
    [statuses |-> {200},
     failures |-> {[code |-> 1005, message |-> MsgPermission]}]

NodeNext ==
    \/ NewFrom("A", "c1", NodeClasses)
    \/ NewNode("A", "c1")
    \/ Access("A", "c1", MaxCalls + 1)
    \/ NodeEnable("A", "c1", MaxCalls + 1)
    \/ NodeConfig("A", "c1", MaxCalls + 1)
    \/ NodeReturn("A")
    \/ NodeResume("A")
    \/ Exchange("A", NodeDevice)

NodeSpec == Init /\ [][NodeNext]_vars

(***************************************************************************)
(* The functions called on their own: a caller constructs a CommandError   *)
(* from a code, a message and a command_error, and holds the object.       *)
(***************************************************************************)
MaxInputs == 2

\* The codes a failure response carries (the six of the eAPI documentation)
\* and two others.
ErrorCodes == {0, 1000, 1001, 1002, 1003, 1004, 1005, 1006}

\* The input values a message may echo: without a space, closed by the
\* parenthesis of the message, and with a space.
InputValues == {<<"p1">>, <<"p2)">>, <<"my", " ", "pass)">>}

SecretChunks == {"p1", "p2)", "my", "pass)"}

\* A message that echoes these input values, each after an "input=".
RECURSIVE EchoInputs(_, _)
EchoInputs(values, i) ==
    IF i > Len(values) THEN <<>>
    ELSE <<" ", "input=">> \o values[i] \o EchoInputs(values, i + 1)

InputMsg(values) == <<"unauthorized:">> \o EchoInputs(values, 1)

ErrorMessages ==
    {InputMsg(q) : q \in SeqsUpTo(InputValues, MaxInputs)}
    \cup {MsgInvalid, MsgKeyword, <<"ends with ", "input=">>,
          <<"input=", " ", "after a space">>}

CommandErrors == {NoneVal, [t |-> "text", parts |-> <<>>],
                  [t |-> "text", parts |-> <<[k |-> "errors", repr |-> List(<<>>)]>>]}

\* The caller's frame of a direct call: the arguments and what came back.
DirectFrame(op, args, result) ==
    [pc |-> "returned", self |-> "none", op |-> op, args |-> args, result |-> result]

\* CommandError(code, message, command_error=cmd_err)
NewCommandError(t) ==
    /\ frame[t].pc = "idle"
    /\ \E code \in ErrorCodes, message \in ErrorMessages, cmd_err \in CommandErrors :
        frame' = [frame EXCEPT ![t] =
            DirectFrame("CommandError",
                        [code |-> code, message |-> message, command_error |-> cmd_err],
                        CommandErrorExc([conn |-> "none", call |-> 0],
                                        code, message, cmd_err, NoneVal))]
    /\ UNCHANGED <<node, heap, life, class, transport, error, socket_error, auth, calls, wire>>

\* The request texts _sanitize_request is given: the envelopes of request()
\* for every command list, JSON text of an atomic value and of empty
\* containers, and text that is not JSON (nothing, an envelope cut short).
Envelopes ==
    {request("c1", List(q), "json", Dict(<<>>)).data : q \in SeqsUpTo(CmdAlphabet, MaxCmds)}

SanitizeInputs ==
    Envelopes
    \cup {SubSeq(d, 1, Len(d) - 1) : d \in Envelopes}
    \cup {<<>>, Dumps(Num(5)), Dumps(Str("enable")), Dumps(List(<<>>)), Dumps(Dict(<<>>)),
          Dumps(EnableCmd("p1")), Dumps(List(<<List(<<EnableCmd("p1")>>), EnableCmd("p2")>>))}

\* self._sanitize_request(data)
CallSanitize(t) ==
    /\ frame[t].pc = "idle"
    /\ \E d \in SanitizeInputs :
        frame' = [frame EXCEPT ![t] =
            DirectFrame("_sanitize_request", [data |-> d], _sanitize_request(d))]
    /\ UNCHANGED <<node, heap, life, class, transport, error, socket_error, auth, calls, wire>>

\* The trees and the patterns _find_sub_json is given: atomic values, empty
\* containers, command lists, an envelope and nested lists; patterns that
\* are a wildcard, atomic values, lists and dicts with and without
\* wildcards, with the keys in either order.
MaxInstance == 1

Trees ==
    {Num(1), Str("enable"), Null, Bool(TRUE), List(<<>>), Dict(<<>>), EnableCmd("p1"),
     List(<<List(<<EnableCmd("p1")>>), EnableCmd("p2")>>),
     List(<<List(<<List(<<>>), Dict(<<>>)>>), Num(1), Null>>)}
    \cup {List(q) : q \in SeqsUpTo(CmdAlphabet, MaxCmds)}
    \cup {Loads(d).v : d \in Envelopes}

Patterns ==
    {Wildcard, EnablePattern, Str("configure"), Num(1), Bool(TRUE), Null,
     List(<<>>), Dict(<<>>), List(<<Wildcard>>), List(<<Wildcard, Wildcard>>),
     Dict(<< <<"input", Wildcard>>, <<"cmd", Str("enable")>> >>),
     Dict(<< <<"cmd", Wildcard>>, <<"input", Str("p2")>> >>),
     Dict(<< <<"cmd", Str("enable")>> >>),
     List(<<EnablePattern>>),
     Dict(<< <<"version", Wildcard>>, <<"cmds", List(<<Wildcard>>)>>,
             <<"format", Str("json")>> >>)}

\* self._find_sub_json(jsn, sbj, instance)
CallFindSubJson(t) ==
    /\ frame[t].pc = "idle"
    /\ \E jsn \in Trees, sbj \in Patterns, instance \in 0..MaxInstance :
        frame' = [frame EXCEPT ![t] =
            DirectFrame("_find_sub_json",
                        [jsn |-> jsn, sbj |-> sbj, instance |-> instance],
                        _find_sub_json(jsn, sbj, instance))]
    /\ UNCHANGED <<node, heap, life, class, transport, error, socket_error, auth, calls, wire>>

\* is_match(jsn, sbj), the matcher nested in _find_sub_json, on the values
\* the search hands to it: whole trees and values nested in them.
MatchValues ==
    Trees \cup {EnableCmd("p2"), List(<<EnableCmd("p1")>>), Str("configure"),
                Str("p2"), Num(0), Bool(FALSE),
                Dict(<< <<"input", Str("enable")>> >>),
                Dict(<< <<"input", Str("p2")>>, <<"cmd", Str("show")>> >>)}

CallIsMatch(t) ==
    /\ frame[t].pc = "idle"
    /\ \E jsn \in MatchValues, sbj \in Patterns :
        frame' = [frame EXCEPT ![t] =
            DirectFrame("is_match", [jsn |-> jsn, sbj |-> sbj],
                        [match |-> is_match(jsn, sbj)])]
    /\ UNCHANGED <<node, heap, life, class, transport, error, socket_error, auth, calls, wire>>

\* self.request(commands, encoding, **kwargs) on connection c1: a command
\* list, one command or a value that is not iterable; with and without a
\* reqid (a number, a string, None), autoComplete, expandAliases, streaming
\* and a keyword request() does not know.
RequestCommands ==
    {List(q) : q \in SeqsUpTo(CmdAlphabet, MaxCmds)} \cup {Str("show version"), Num(5)}

RequestKwargs ==
    {Dict(r \o a \o x \o s \o o) :
        r \in {<<>>, << <<"reqid", Num(7)>> >>, << <<"reqid", Str("r1")>> >>,
               << <<"reqid", Null>> >>},
        a \in {<<>>, << <<"autoComplete", Bool(TRUE)>> >>},
        x \in {<<>>, << <<"expandAliases", Bool(FALSE)>> >>},
        s \in {<<>>, << <<"streaming", Bool(TRUE)>> >>},
        o \in {<<>>, << <<"revision", Num(1)>> >>}}

CallRequest(t) ==
    /\ frame[t].pc = "idle"
    /\ \E commands \in RequestCommands, encoding \in ValidEncodings,
          kwargs \in RequestKwargs :
        frame' = [frame EXCEPT ![t] =
            DirectFrame("request",
                        [commands |-> commands, encoding |-> encoding, kwargs |-> kwargs],
                        request("c1", commands, encoding, kwargs))]
    /\ UNCHANGED <<node, heap, life, class, transport, error, socket_error, auth, calls, wire>>

(***************************************************************************)
(* HttpsEapiConnection(host, port, path, username, password, context,      *)
(* timeout, **kwargs): the TLS context handed to the transport.            *)
(***************************************************************************)
DEFAULT_HTTPS_PORT == 443

\* An ssl.SSLContext: whether it verifies the peer, and who made it.
SSLContext(verifies, by) == [t |-> "SSLContext", verifies |-> verifies, by |-> by]

\* The truth value Python gives a value in a condition.
PyTruth(v) ==
    CASE v = NoneVal -> FALSE
      [] v.t = "bool" -> v.b
      [] v.t = "num" -> v.n # 0
      [] v.t = "str" -> v.s # <<>> /\ v.s # <<"">>
      [] OTHER -> TRUE

\* disable_certificate_verification: ssl._create_unverified_context() when
\* the ssl module has it, else the method returns nothing.
disable_certificate_verification(has_unverified) ==
    IF has_unverified THEN SSLContext(FALSE, "connection") ELSE NoneVal

\* Faulty variant of SelectContext: enforce_verification is not looked at.
SelectContextUnenforced(context, enforce_verification, has_unverified) ==
    IF context = NoneVal
    THEN disable_certificate_verification(has_unverified) ELSE context

\* if context is None and not enforce_verification:
\*     context = self.disable_certificate_verification()
SelectContext(context, enforce_verification, has_unverified) ==
    IF context = NoneVal /\ ~PyTruth(enforce_verification)
    THEN disable_certificate_verification(has_unverified) ELSE context

\* What a caller passes: no context, a verifying one or one of its own that
\* does not verify; enforce_verification absent (None) or a value, true or
\* false in a condition; a port or none.
Contexts == {NoneVal, SSLContext(TRUE, "caller"), SSLContext(FALSE, "caller")}

EnforceValues == {NoneVal, Bool(TRUE), Bool(FALSE), Num(0), Num(1), Str("yes")}

Ports == {NoneVal, Num(8443)}

NewHttps(t) ==
    /\ frame[t].pc = "idle"
    /\ \E context \in Contexts, enforce \in EnforceValues, port \in Ports,
          has_unverified \in BOOLEAN :
        frame' = [frame EXCEPT ![t] =
            DirectFrame("HttpsEapiConnection",
                [context |-> context, enforce_verification |-> enforce, port |-> port,
                 has_unverified |-> has_unverified],
                [transport |->
                    [scheme |-> "https",
                     port |-> IF PyTruth(port) THEN port.n ELSE DEFAULT_HTTPS_PORT,
                     context |-> SelectContext(context, enforce, has_unverified)],
                 error |-> NoneVal, socket_error |-> NoneVal,
                 auth |-> BasicAuth(Username, Password)])]
    /\ UNCHANGED <<node, heap, life, class, transport, error, socket_error, auth, calls, wire>>

DirectNext ==
    \/ NewCommandError("A")
    \/ CallSanitize("A")
    \/ CallFindSubJson("A")
    \/ CallIsMatch("A")
    \/ CallRequest("A")
    \/ NewHttps("A")
    \/ Resume("A")

DirectSpec == Init /\ [][DirectNext]_vars

(***************************************************************************)
(* Properties.                                                             *)
(***************************************************************************)
\* The call of caller t is an execute call that has exited.
Exited(t) == frame[t].op = "execute" /\ frame[t].pc \in Resting

\* The body of the response was read and is JSON text / its decoded value.
BodyRead(t) == frame[t].reads = 1

Decoded(t) == Loads(frame[t].response.content)

\* The commands of a logged or sent request text.
CmdsOf(text) == Get(Get(Loads(text).v, "params"), "cmds").items

\* C1: a CommandError raised by execute from a failure response whose
\* error.data has k entries (k at most the number of commands sent) has a
\* trace with one entry per command sent: entry i pairs commands[i] with
\* output[i] for i < k, and with an absent output for i >= k.
C1_TraceHasOneEntryPerCommand ==
    \A t \in Callers :
        LET exc == frame[t].exc IN
        (/\ Exited(t)
         /\ exc.kind = "CommandError"
         /\ exc.output # NoneVal
         /\ exc.commands.t = "list"
         /\ Len(exc.output.items) <= Len(exc.commands.items))
        => LET got == get_trace(exc)
               cmds == exc.commands.items
               out == exc.output.items
           IN /\ got.raised = "None"
              /\ Len(got.trace) = Len(cmds)
              /\ \A i \in 1..Len(got.trace) :
                    got.trace[i] = TraceEntry(cmds[i],
                                     IF i <= Len(out) THEN out[i] ELSE NoneVal)

\* C2, as claimed: every CommandError, ConnectionError or TypeError that
\* leaves an execute call, the TypeError of the encoding validation
\* included, carries the caller's commands and is the value in the
\* connection's error slot when the call exits.
C2_EveryEscapingErrorIsRecorded ==
    \A t \in Callers :
        LET f == frame[t] IN
        (Exited(t) /\ f.pc = "raised" /\ f.exc.kind \in Caught)
        => /\ f.exc.commands = f.commands
           /\ error[f.self] = Ref(f.exc)

\* C2, amended: every CommandError, ConnectionError or TypeError raised
\* inside the try block of execute (after the encoding validation) carries
\* the caller's commands and is the value in the error slot when the call
\* exits; the TypeError of the encoding validation has no commands attribute
\* and is not in the slot.
C2_ErrorsOfTheTryBlockAreRecorded ==
    \A t \in Callers :
        LET f == frame[t] IN
        (Exited(t) /\ f.pc = "raised" /\ f.exc.kind \in Caught)
        => IF f.encoding \in ValidEncodings
           THEN /\ f.exc.commands = f.commands
                /\ error[f.self] = Ref(f.exc)
           ELSE /\ f.exc.kind = "TypeError"
                /\ f.exc.commands = Unset
                /\ error[f.self] # Ref(f.exc)

\* A CommandError has left an execute call with the commands attached and
\* is in the slot.
C2_Witness ==
    \E t \in Callers :
        /\ Exited(t)
        /\ frame[t].exc.kind = "CommandError"
        /\ frame[t].commands.t = "list" /\ Len(frame[t].commands.items) = 2
        /\ frame[t].exc.commands = frame[t].commands
        /\ error[frame[t].self] = Ref(frame[t].exc)

\* C3, as claimed: after an execute call has exited, the error slot is None
\* when the call returned and is the call's exception when it raised, so
\* that an exception of an earlier call is never still in the slot.
C3_SlotReflectsTheLastCall ==
    \A t \in Callers :
        LET f == frame[t] IN
        Exited(t) => IF f.pc = "returned" THEN error[f.self] = NoneVal
                     ELSE error[f.self] = Ref(f.exc)

\* C3, amended: when an execute call exits, the error slot is None if the
\* call returned and is the call's exception if it raised CommandError,
\* ConnectionError or TypeError from the try block; a call rejected by the
\* encoding validation leaves the slot as it was before the call.
C3_SlotReflectsTheLastCallTried ==
    [][\A t \in Callers :
        (frame[t].pc \notin Resting /\ frame'[t].op = "execute"
            /\ frame'[t].pc \in Resting)
        => IF frame'[t].encoding \notin ValidEncodings
           THEN error'[frame'[t].self] = error[frame'[t].self]
           ELSE IF frame'[t].pc = "returned"
           THEN error'[frame'[t].self] = NoneVal
           ELSE error'[frame'[t].self] = Ref(frame'[t].exc)]_vars

\* The second call on a connection has returned and the slot is None, after
\* a call that failed with a socket error (which socket_error still holds).
C3_Witness ==
    \E t \in Callers :
        /\ Exited(t)
        /\ frame[t].pc = "returned"
        /\ frame[t].at.call = 2
        /\ socket_error[frame[t].self] # NoneVal
        /\ error[frame[t].self] = NoneVal

\* C4: in the text logged for a request, every command of the form
\* {cmd: "enable", input: v} has its input replaced by "<removed>", however
\* many such commands there are and wherever they stand.
C4_LoggedRequestHasNoInput ==
    \A t \in Callers :
        frame[t].logged # NoneVal
        => \A i \in 1..Len(CmdsOf(frame[t].logged)) :
              LET cmd == CmdsOf(frame[t].logged)[i] IN
              (/\ cmd.t = "dict"
               /\ Len(cmd.items) = 2
               /\ Has(cmd, "cmd") /\ Get(cmd, "cmd") = Str("enable")
               /\ Has(cmd, "input"))
              => Get(cmd, "input") = Removed

\* C5: when no call is inside an exchange on a connection (send or the
\* login has returned or raised), its transport is closed.
InExchange ==
    {"login_endheaders", "login_getresponse", "login_except", "login_finally",
     "send_endheaders", "send_getresponse", "send_read", "send_except",
     "send_finally"}

C5_TransportClosedOutsideExchange ==
    \A c \in Conns :
        (\A t \in Callers : frame[t].self = c => frame[t].pc \notin InExchange)
        => transport[c] = ClosedTransport

\* An execute call that sent its request and then failed has exited.
C5_Witness ==
    \E t \in Callers :
        /\ Exited(t)
        /\ frame[t].pc = "raised"
        /\ frame[t].sent = 1
        /\ frame[t].os # NoExc
        /\ ~transport[frame[t].self].sock

\* C6: a session connection logs in once, in its constructor, and every
\* request of execute carries the Cookie header made of the cookie of that
\* login.
C6_OneLoginOneCookie ==
    \A c \in Conns :
        (class[c] = "HttpEapiSessionConnection" /\ life[c] = "ready")
        => /\ wire[c].logins = 1
           /\ auth[c] = SessionAuth(wire[c].issued)
           /\ wire[c].inflight # NoneVal
              => /\ wire[c].inflight.path = "/command-api"
                 /\ wire[c].inflight.headers.auth = SessionAuth(wire[c].issued)

\* The second execute call on a session connection has sent its request,
\* after a call that the device rejected or that failed.
C6_Witness ==
    \E c \in Conns :
        /\ class[c] = "HttpEapiSessionConnection"
        /\ calls[c] = 2
        /\ wire[c].issued # NoneVal
        /\ wire[c].inflight # NoneVal
        /\ wire[c].inflight.headers.auth.header = "Cookie"
        /\ wire[c].logins = 1

\* C7: when the status of the response is 401, execute raises
\* ConnectionError whatever the body is, and json.loads is not run on it.
C7_Status401IsConnectionError ==
    \A t \in Callers :
        LET f == frame[t] IN
        (f.op = "execute" /\ f.response.status = 401)
        => /\ ~f.parsed
           /\ f.result = NoneVal
           /\ f.pc # "returned"
           /\ (BodyRead(t) \/ f.pc = "raised") => f.exc.kind = "ConnectionError"

\* A 401 whose body is a well-formed success response has been raised as
\* ConnectionError.
C7_Witness ==
    \E t \in Callers :
        /\ Exited(t)
        /\ BodyRead(t)
        /\ frame[t].response.status = 401
        /\ Decoded(t).ok /\ Has(Decoded(t).v, "result")
        /\ frame[t].exc.kind = "ConnectionError"

\* C8: when the status is not 401 and the body is not JSON, execute raises
\* ConnectionError with the message "unable to connect to eAPI"; no
\* ValueError leaves execute.
C8_MalformedBodyIsConnectionError ==
    \A t \in Callers :
        LET f == frame[t] IN
        /\ Exited(t) => f.exc.kind # "ValueError"
        /\ (Exited(t) /\ BodyRead(t) /\ f.response.status # 401 /\ ~Decoded(t).ok)
           => /\ f.pc = "raised"
              /\ f.exc.kind = "ConnectionError"
              /\ f.exc.message = UnableMessage

\* A body cut short, with status 200, has been raised as ConnectionError.
C8_Witness ==
    \E t \in Callers :
        /\ Exited(t)
        /\ BodyRead(t)
        /\ frame[t].response.status = 200
        /\ frame[t].response.content # <<>>
        /\ ~Decoded(t).ok
        /\ frame[t].exc.kind = "ConnectionError"

\* C9: a socket error at any step of the exchange of send makes execute
\* raise ConnectionError with the string form of the connection and a
\* message that holds the text of the OS error; the OSError itself never
\* leaves execute, and the call does not return.
C9_SocketErrorIsConnectionError ==
    \A t \in Callers :
        LET f == frame[t] IN
        /\ Exited(t) => f.exc.kind # "OSError"
        /\ (Exited(t) /\ f.os # NoExc)
           => /\ f.pc = "raised"
              /\ f.exc.kind = "ConnectionError"
              /\ f.exc.connection_type = ConnStr(f.self, class[f.self])
              /\ f.exc.message.fmt = "Socket error during eAPI connection: %s"
              /\ f.exc.message.text = f.os.text

\* A socket error while the body was read has been raised as ConnectionError.
C9_Witness ==
    \E t \in Callers :
        /\ Exited(t)
        /\ frame[t].os # NoExc
        /\ frame[t].os.text = OSErrorText("read")
        /\ frame[t].response.status = 200
        /\ frame[t].exc.kind = "ConnectionError"

\* C10: when the status is not 401 and the decoded body has an error key,
\* execute raises CommandError whose error_code is error.code and whose
\* output is error.data, entry by entry.
C10_ErrorObjectIsCommandError ==
    \A t \in Callers :
        LET f == frame[t] IN
        (/\ Exited(t) /\ BodyRead(t)
         /\ f.response.status # 401
         /\ Decoded(t).ok /\ Has(Decoded(t).v, "error"))
        => LET err == Get(Decoded(t).v, "error") IN
           /\ f.pc = "raised"
           /\ f.exc.kind = "CommandError"
           /\ f.exc.error_code = Get(err, "code").n
           /\ Has(err, "data")
              => /\ f.exc.output.t = "list"
                 /\ Len(f.exc.output.items) = Len(Get(err, "data").items)
                 /\ \A i \in 1..Len(f.exc.output.items) :
                       f.exc.output.items[i] = Get(err, "data").items[i]

\* A failure response with the outputs of two commands, with status 500,
\* has been raised as CommandError.
C10_Witness ==
    \E t \in Callers :
        /\ Exited(t) /\ BodyRead(t)
        /\ frame[t].response.status = 500
        /\ frame[t].exc.kind = "CommandError"
        /\ frame[t].exc.output # NoneVal
        /\ Len(frame[t].exc.output.items) = 2

\* The caller holds the outcome of a direct call of this function.
Called(t, op) == frame[t].pc = "returned" /\ frame[t].op = op

\* C11: the formatted message of a CommandError with code 1005 holds no
\* part of a value that followed an "input=" in the message text, whatever
\* the value is and however many values there are.
C11_NoInputValueInMessage ==
    \A t \in Callers :
        (Called(t, "CommandError") /\ frame[t].args.code = 1005)
        => LET text == frame[t].result.message.text IN
           \A i \in 1..Len(text) : text[i] \notin SecretChunks

\* C12: the shape of the message is decided by the code: for 1000, 1001,
\* 1002 and 1004 it is "Error [code]: message [command_error]"; for 1005 it
\* is "Error [code]: text" where text is the message after the substitution
\* on "input="; for every other code it is "Error [code]: message" with the
\* message as given; the last two have no command_error suffix.
C12_MessageShapeByCode ==
    \A t \in Callers :
        Called(t, "CommandError")
        => LET a == frame[t].args
               m == frame[t].result.message
           IN /\ m.code = a.code
              /\ IF a.code \in {1000, 1001, 1002, 1004}
                 THEN /\ m.fmt = "Error [{}]: {} [{}]"
                      /\ m.text = a.message
                      /\ m.cmd_err = a.command_error
                 ELSE /\ m.fmt = "Error [{}]: {}"
                      /\ m.cmd_err = Unset
                      /\ IF a.code = 1005
                         THEN /\ Len(m.text) <= Len(a.message)
                              /\ \A i \in 1..Len(m.text) :
                                    \/ m.text[i] = "<removed>)" /\ m.text[i - 1] = "input="
                                    \/ m.text[i] \in {a.message[j] : j \in 1..Len(a.message)}
                              /\ \A i \in 1..(Len(m.text) - 1) :
                                    m.text[i] = "input=" => m.text[i + 1] \in {"<removed>)", " "}
                         ELSE m.text = a.message

\* A code 1003 message that has an "input=" is left as it is, with a
\* command_error that is not shown.
C12_Witness ==
    \E t \in Callers :
        /\ Called(t, "CommandError")
        /\ frame[t].args.code = 1003
        /\ frame[t].args.command_error # NoneVal
        /\ frame[t].args.message = InputMsg(<< <<"p1">> >>)
        /\ frame[t].result.message.text = frame[t].args.message

\* C13: an execute call with an encoding other than "json" and "text"
\* raises TypeError at once: in the step that enters the call no envelope is
\* built, nothing is logged or sent or read, and the transport and the wire
\* are as they were.
C13_InvalidEncodingDoesNoIO ==
    [][\A t \in Callers :
        (frame'[t] # frame[t] /\ frame'[t].op = "execute"
            /\ frame'[t].encoding \notin {"json", "text"})
        => /\ frame[t].pc = "idle"
           /\ frame'[t].pc = "raised"
           /\ frame'[t].exc.kind = "TypeError"
           /\ frame'[t].data = <<>>
           /\ frame'[t].logged = NoneVal
           /\ frame'[t].sent = 0 /\ frame'[t].reads = 0
           /\ frame'[t].response = NoResponse
           /\ transport' = transport
           /\ transport[frame'[t].self] = ClosedTransport
           /\ wire' = wire]_vars

\* The second call on a connection was made with the encoding "xml" and has
\* raised TypeError.
C13_Witness ==
    \E t \in Callers :
        /\ Exited(t)
        /\ frame[t].encoding = "xml"
        /\ frame[t].at.call = 2
        /\ frame[t].exc.kind = "TypeError"
        /\ frame[t].commands.t = "list" /\ Len(frame[t].commands.items) = 2

\* C14, as claimed: every execute call with a valid encoding sends exactly
\* one request and reads at most one response, and has closed the transport
\* when it exits.
C14_ExactlyOneRequest ==
    \A t \in Callers :
        (Exited(t) /\ frame[t].encoding \in ValidEncodings)
        => /\ frame[t].sent = 1
           /\ frame[t].reads <= 1
           /\ transport[frame[t].self] = ClosedTransport

\* C14, amended: an execute call with a valid encoding sends at most one
\* request and reads at most one response, the response of the request it
\* sent; it sends none only when request() raised TypeError or a socket
\* error came before the request went out, and then it raises; whatever
\* fails, the call exits with the transport closed and nothing in flight.
C14_AtMostOneRequest ==
    \A t \in Callers :
        LET f == frame[t] IN
        (f.op = "execute" /\ f.encoding \in ValidEncodings)
        => /\ f.sent <= 1
           /\ f.reads <= f.sent
           /\ f.pc \in Resting
              => /\ transport[f.self] = ClosedTransport
                 /\ wire[f.self].inflight = NoneVal
                 /\ f.pc = "returned" => f.sent = 1 /\ f.reads = 1
                 /\ f.sent = 0
                    => /\ f.pc = "raised"
                       /\ \/ f.exc.kind = "TypeError" /\ f.logged = NoneVal
                          \/ f.exc.kind = "ConnectionError" /\ f.os # NoExc

\* A call has sent its request, lost the connection while it waited for
\* the response, and has raised without a second request.
C14_Witness ==
    \E t \in Callers :
        /\ Exited(t)
        /\ frame[t].sent = 1
        /\ frame[t].reads = 0
        /\ frame[t].os # NoExc
        /\ frame[t].os.text = OSErrorText("getresponse")
        /\ frame[t].exc.kind = "ConnectionError"

\* C15: a CommandError raised by execute from a failure response without
\* error.data has no output and no command_error, and its trace has one
\* entry per command sent, each with an absent output; get_trace does not
\* raise.
C15_TraceWithoutData ==
    \A t \in Callers :
        LET exc == frame[t].exc IN
        (/\ Exited(t) /\ BodyRead(t)
         /\ exc.kind = "CommandError"
         /\ ~Has(Get(Decoded(t).v, "error"), "data"))
        => /\ exc.output = NoneVal
           /\ exc.command_error = NoneVal
           /\ get_trace(exc).raised = "None"
           /\ Len(get_trace(exc).trace) = Len(exc.commands.items)
           /\ \A i \in 1..Len(get_trace(exc).trace) :
                 get_trace(exc).trace[i] = TraceEntry(exc.commands.items[i], NoneVal)

\* The result list of a decoded success response.
ResultOf(decoded) == Get(decoded, "result").items

C17_SentBodyIsTheEnvelope ==
    \A t \in Callers :
        LET f == frame[t]
            built == request(f.self, f.commands, f.encoding, f.kwargs)
        IN (f.op = "execute" /\ f.logged # NoneVal)
           => /\ ~built.raised /\ f.data = built.data
              /\ CmdsOf(f.data) = f.commands.items
              /\ transport[f.self].req # NoneVal
                 => transport[f.self].req.body = f.data
              /\ wire[f.self].inflight # NoneVal
                 => /\ wire[f.self].inflight.body = f.data
                    /\ wire[f.self].inflight.headers.clen = Len(f.data)

\* A request whose logged copy was redacted is on the wire with the input
\* values of both of its commands.
C17_Witness ==
    \E t \in Callers :
        /\ frame[t].op = "execute"
        /\ frame[t].logged # NoneVal
        /\ frame[t].logged # frame[t].data
        /\ wire[frame[t].self].inflight # NoneVal
        /\ wire[frame[t].self].inflight.body = frame[t].data
        /\ CmdsOf(frame[t].data) = <<EnableCmd("p1"), EnableCmd("p2")>>

\* A tree holds a command of the form {cmd: "enable", input: v} below its
\* root.
IsEnable(v) ==
    /\ v.t = "dict" /\ Len(v.items) = 2
    /\ Has(v, "cmd") /\ Get(v, "cmd") = Str("enable")
    /\ Has(v, "input")

RECURSIVE Below(_)
Below(v) ==
    IF v.t \in {"list", "dict"}
    THEN UNION {{Entries(v)[i].val} \cup Below(Entries(v)[i].val) : i \in 1..Len(v.items)}
    ELSE {}

\* C18: _sanitize_request applied to what _sanitize_request returned gives
\* the same text again, for a text without a match, with one match, with
\* several, and for text that is not JSON.
C18_SanitizeIsIdempotent ==
    \A t \in Callers :
        Called(t, "_sanitize_request")
        => _sanitize_request(frame[t].result) = frame[t].result

\* A request with two enable commands was sanitized: the first input is
\* redacted, the second is still in the text.
C18_Witness ==
    \E t \in Callers :
        /\ Called(t, "_sanitize_request")
        /\ frame[t].args.data
             = request("c1", List(<<EnableCmd("p1"), EnableCmd("p2")>>),
                       "json", Dict(<<>>)).data
        /\ frame[t].result # frame[t].args.data
        /\ CmdsOf(frame[t].result)
             = <<Put(EnableCmd("p1"), "input", Removed), EnableCmd("p2")>>

\* C19: _find_sub_json returns a match (a container of the tree and the
\* position in it of an entry that matches the pattern) or the no-match
\* value; for an atomic tree, and for a tree with no matching entry below
\* its root, it returns no match.  _sanitize_request returns the text it was
\* given when the text is not JSON and when its tree has no enable command.
C19_NoMatchIsNotAnError ==
    \A t \in Callers :
        /\ Called(t, "_find_sub_json")
           => LET a == frame[t].args
                  r == frame[t].result
              IN /\ r.found \in BOOLEAN
                 /\ r.found
                    => /\ is_iterable(At(a.jsn, r.path))
                       /\ r.pos \in 1..Len(At(a.jsn, r.path).items)
                       /\ is_match(At(a.jsn, r.path \o <<r.pos>>), a.sbj)
                 /\ ~r.found => r.path = <<>> /\ r.pos = 0
                 /\ is_atomic(a.jsn) => ~r.found
                 /\ (\A v \in Below(a.jsn) : ~is_match(v, a.sbj)) => ~r.found
                 /\ (a.instance = 0 /\ ~r.found)
                    => \A v \in Below(a.jsn) : ~is_match(v, a.sbj)
        /\ Called(t, "_sanitize_request")
           => LET d == frame[t].args.data
                  r == frame[t].result
              IN /\ ~Loads(d).ok => r = d
                 /\ (Loads(d).ok /\ \A v \in Below(Loads(d).v) : ~IsEnable(v)) => r = d

\* The search of a nested tree of empty containers and atomic values for a
\* command has returned no match.
C19_Witness ==
    \E t \in Callers :
        /\ Called(t, "_find_sub_json")
        /\ frame[t].args.jsn = List(<<List(<<List(<<>>), Dict(<<>>)>>), Num(1), Null>>)
        /\ frame[t].args.sbj = EnablePattern
        /\ ~frame[t].result.found

\* The call of caller t is the construction of a session connection, with
\* its login, and has exited.
LoggedIn(t) ==
    /\ frame[t].op = "new" /\ frame[t].pc \in Resting
    /\ class[frame[t].self] = "HttpEapiSessionConnection"

\* C20: when the login response has a status other than 200 the constructor
\* raises ConnectionError and the credential slot stays unset; a socket error
\* and a ValueError during the login are raised as ConnectionError as well;
\* the constructor returns only after a 200, with the cookie retained.
C20_FailedLoginRetainsNoCookie ==
    \A t \in Callers :
        LET f == frame[t]
            c == f.self
        IN LoggedIn(t)
           => /\ f.exc.kind \in {"None", "ConnectionError"}
              /\ f.pc = "raised" <=> f.exc.kind = "ConnectionError"
              /\ f.response.status \notin {0, 200}
                 => /\ f.pc = "raised"
                    /\ auth[c] = NoneVal
                    /\ life[c] = "failed"
              /\ f.os # NoExc
                 => /\ f.pc = "raised"
                    /\ f.exc.connection_type = ConnStr(c, class[c])
                    /\ f.exc.message.fmt = "Socket error during eAPI authentication: %s"
                    /\ f.exc.message.text = f.os.text
                    /\ socket_error[c] = Ref(f.os)
                    /\ auth[c] = NoneVal
              /\ error[c] = Ref(ValueErrorExc(f.at))
                 => /\ f.pc = "raised"
                    /\ f.exc.message = UnableMessage
                    /\ auth[c] = NoneVal
              /\ f.pc = "returned"
                 => /\ f.response.status = 200
                    /\ auth[c] = SessionAuth(wire[c].issued)

\* The login was answered with 401: the constructor has raised
\* ConnectionError, with the reason of the response, and no cookie is kept.
C20_Witness ==
    \E t \in Callers :
        /\ LoggedIn(t)
        /\ frame[t].response.status = 401
        /\ frame[t].reads = 1
        /\ frame[t].exc.kind = "ConnectionError"
        /\ frame[t].exc.message.reason = Reason(401)
        /\ auth[frame[t].self] = NoneVal

\* What an execute call that has exited on connection c of class k comes to
\* when nothing but the call uses c: a function of the call's arguments, of
\* the socket error raised under it and of the response it read.
OutcomeAlone(c, k, f) ==
    LET me == ConnStr(c, k)
        prefix == "Socket error during eAPI connection: %s"
        got == Classify(f.at, me, f.response)
        raised(exc) == [pc |-> "raised", exc |-> exc, result |-> NoneVal]
    IN IF f.encoding \notin ValidEncodings
       THEN raised(TypeErrorExc(f.at, "encoding must be one of [json, text]"))
       ELSE IF request(c, f.commands, f.encoding, f.kwargs).raised
       THEN raised(WithCommands(TypeErrorExc(f.at, "value must be an iterable object"),
                                f.commands))
       ELSE IF f.os # NoExc
       THEN raised(WithCommands(Handled(f.os, me, prefix).raise, f.commands))
       ELSE IF got.exc = NoExc
       THEN [pc |-> "returned", exc |-> NoExc, result |-> got.result]
       ELSE IF got.exc.kind = "ValueError"
       THEN raised(WithCommands(Handled(got.exc, me, prefix).raise, f.commands))
       ELSE raised(WithCommands(got.exc, f.commands))

\* The attributes of a connection that a call on another one must leave alone.
Attributes(c) == <<auth[c], error[c], socket_error[c], transport[c]>>

\* The call of caller t has exited with the outcome it has alone, and its
\* connection holds what the call alone leaves in it.
OwnOutcome(t) ==
    LET f == frame[t]
        c == ConnOf(t)
        alone == OutcomeAlone(c, class[c], f)
    IN Exited(t)
       => /\ f.self = c /\ f.at.conn = c
          /\ f.pc = alone.pc /\ f.exc = alone.exc /\ f.result = alone.result
          /\ f.encoding \in ValidEncodings
             => /\ error[c] = IF f.pc = "returned" THEN NoneVal ELSE Ref(f.exc)
                /\ transport[c] = ClosedTransport
          /\ f.os # NoExc => socket_error[c] = Ref(f.os)
          /\ f.sent = 1 => f.data = request(c, f.commands, f.encoding, f.kwargs).data

\* C21: with two connections used by two callers, in every interleaving a
\* step of a caller leaves the other connection's credential header,
\* last-error slot, socket_error slot and transport unchanged, and a call
\* that exits has the outcome, and leaves in its own connection the state,
\* that the call has when it runs alone.
C21_ConnectionsAreIndependent ==
    /\ [](\A t \in Callers : OwnOutcome(t))
    /\ [][\A t \in Callers :
            frame'[t] # frame[t]
            => \A c \in Conns \ {ConnOf(t)} : Attributes(c)' = Attributes(c)]_vars

\* Caller A is in the middle of an exchange on its connection, the socket
\* open, while caller B's call on the other connection has failed and
\* exited: B's exception is in B's slot only, B's transport is closed.
C21_Witness ==
    /\ frame["A"].op = "execute" /\ frame["A"].pc = "send_read"
    /\ transport["c1"].sock
    /\ error["c1"] = NoneVal
    /\ Exited("B") /\ frame["B"].exc.kind = "CommandError"
    /\ error["c2"] = Ref(frame["B"].exc)
    /\ transport["c2"] = ClosedTransport
    /\ auth["c1"] # NoneVal /\ auth["c2"] # NoneVal

\* The exceptions execute records in the error slot.
Recorded == {"ConnectionError", "CommandError", "TypeError"}

\* C22: one connection used by two callers with no serialization is not
\* safe.  After a caller's execute has failed and exited, the error slot may
\* not hold its exception, and a caller's exchange may run on a transport
\* that is closed or in use; either happens only through a call of the other
\* caller on the same connection: the slot was then reset or written by
\* another call, and the transport was closed under the exchange by another
\* call.
C22_UnsafeOnlyThroughTheOtherCall ==
    \A t \in Callers :
        LET f == frame[t]
            c == f.self
        IN /\ (Exited(t) /\ f.pc = "raised" /\ f.exc.kind \in Recorded
                /\ f.encoding \in ValidEncodings /\ error[c] # Ref(f.exc))
              => /\ calls[c] >= 2
                 /\ error[c] # NoneVal => error[c].at # f.at
           /\ (f.op = "execute" /\ f.pc \in {"send_getresponse", "send_read"}
                /\ ~transport[c].sock)
              => calls[c] >= 2

\* Caller A's execute has failed with a CommandError and exited, and the
\* error slot holds the exception of caller B's call instead; B is still
\* inside its exchange, on the transport that A's call has closed.
C22_Witness ==
    /\ Exited("A") /\ frame["A"].pc = "raised"
    /\ frame["A"].exc.kind = "CommandError"
    /\ frame["B"].op = "execute" /\ frame["B"].self = frame["A"].self
    /\ frame["B"].pc = "send_finally"
    /\ error["c1"] # Ref(frame["A"].exc)
    /\ error["c1"] # NoneVal /\ error["c1"].at = frame["B"].at
    /\ transport["c1"] = ClosedTransport

\* The matches of a pattern in a tree, each as the container (by its path)
\* and the position of the entry, in two orders.  EntryFirst: an entry, then
\* what is nested in it, then the next entry.  DirectFirst: all the entries
\* of a container, then what is nested in each of them.
RECURSIVE EntryFirst(_, _, _)
RECURSIVE EntryFirstFrom(_, _, _, _)

EntryFirstFrom(jsn, sbj, path, i) ==
    IF i > Len(jsn.items) THEN <<>>
    ELSE LET val == Entries(jsn)[i].val
         IN (IF is_match(val, sbj) THEN << [path |-> path, pos |-> i] >> ELSE <<>>)
            \o EntryFirst(val, sbj, path \o <<i>>)
            \o EntryFirstFrom(jsn, sbj, path, i + 1)

EntryFirst(jsn, sbj, path) ==
    IF is_atomic(jsn) THEN <<>> ELSE EntryFirstFrom(jsn, sbj, path, 1)

RECURSIVE DirectFirst(_, _, _)
RECURSIVE NestedFrom(_, _, _, _)

DirectOf(jsn, sbj, path) ==
    LET hits == {i \in 1..Len(jsn.items) : is_match(Entries(jsn)[i].val, sbj)}
        F[i \in 0..Len(jsn.items)] ==
            IF i = 0 THEN <<>>
            ELSE IF i \in hits THEN Append(F[i - 1], [path |-> path, pos |-> i])
            ELSE F[i - 1]
    IN F[Len(jsn.items)]

NestedFrom(jsn, sbj, path, i) ==
    IF i > Len(jsn.items) THEN <<>>
    ELSE DirectFirst(Entries(jsn)[i].val, sbj, path \o <<i>>)
         \o NestedFrom(jsn, sbj, path, i + 1)

DirectFirst(jsn, sbj, path) ==
    IF is_atomic(jsn) THEN <<>>
    ELSE DirectOf(jsn, sbj, path) \o NestedFrom(jsn, sbj, path, 1)

\* The result of a search is the (instance + 1)-th match of a list of
\* matches, and no match when the list is shorter.
IsNthOf(r, matches, instance) ==
    IF instance < Len(matches)
    THEN /\ r.found
         /\ r.path = matches[instance + 1].path
         /\ r.pos = matches[instance + 1].pos
    ELSE ~r.found

\* C23, as claimed: _find_sub_json examines the direct entries of a
\* container before it descends into nested containers, so that with
\* skip-count N it returns the (N+1)-th match in that order (a direct entry
\* before a match nested in an earlier sibling), and None when there are
\* fewer than N+1 matches.
C23_DirectEntriesFirst ==
    \A t \in Callers :
        Called(t, "_find_sub_json")
        => LET a == frame[t].args
           IN IsNthOf(frame[t].result, DirectFirst(a.jsn, a.sbj, <<>>), a.instance)

\* C23, amended: _find_sub_json tests an entry and then searches what is
\* nested in that entry before it goes on to the next entry; with skip-count
\* N it returns the (N+1)-th match in that order (a match nested in an
\* earlier sibling before a later direct entry), and None when there are
\* fewer than N+1 matches.
C23_EntryThenNested ==
    \A t \in Callers :
        Called(t, "_find_sub_json")
        => LET a == frame[t].args
           IN IsNthOf(frame[t].result, EntryFirst(a.jsn, a.sbj, <<>>), a.instance)

\* The search of [[enable p1], enable p2] for an enable command with
\* skip-count 0 has returned the command nested in the first entry, not the
\* second entry.
C23_Witness ==
    \E t \in Callers :
        /\ Called(t, "_find_sub_json")
        /\ frame[t].args.jsn = List(<<List(<<EnableCmd("p1")>>), EnableCmd("p2")>>)
        /\ frame[t].args.sbj = EnablePattern
        /\ frame[t].args.instance = 0
        /\ is_match(At(frame[t].args.jsn, <<2>>), frame[t].args.sbj)
        /\ ~is_match(At(frame[t].args.jsn, <<1>>), frame[t].args.sbj)
        /\ frame[t].result.found
        /\ frame[t].result.path = <<1>> /\ frame[t].result.pos = 1

\* The reference matcher.  Two atomic values are equal as Python compares
\* them: two strings with the same text, None and None, and two numbers with
\* the same value, where a bool counts as the number 1 or 0.
EqualAtoms(a, b) ==
    CASE a.t = "str" /\ b.t = "str" -> a.s = b.s
      [] a.t = "null" /\ b.t = "null" -> TRUE
      [] a.t \in {"num", "bool"} /\ b.t \in {"num", "bool"} ->
            (IF a.t = "bool" THEN (IF a.b THEN 1 ELSE 0) ELSE a.n)
            = (IF b.t = "bool" THEN (IF b.b THEN 1 ELSE 0) ELSE b.n)
      [] OTHER -> FALSE

KeysOf(d) == {d.items[i][1] : i \in 1..Len(d.items)}

RECURSIVE Reference(_, _)
Reference(jsn, sbj) ==
    CASE sbj.t = "tuple" -> TRUE
      [] sbj.t = "dict" ->
            /\ jsn.t = "dict"
            /\ KeysOf(jsn) = KeysOf(sbj)
            /\ \A k \in KeysOf(sbj) : Reference(Get(jsn, k), Get(sbj, k))
      [] sbj.t = "list" ->
            /\ jsn.t = "list"
            /\ Len(jsn.items) = Len(sbj.items)
            /\ \A i \in 1..Len(sbj.items) : Reference(jsn.items[i], sbj.items[i])
      [] OTHER -> jsn.t \notin {"list", "dict"} /\ EqualAtoms(jsn, sbj)

\* C24: is_match agrees with the reference for every tree value and pattern:
\* a wildcard matches any value; an atomic pattern matches only an equal
\* atomic value, never a container; an object pattern matches only an object
\* with the same key set whose values match key by key; a sequence pattern
\* matches only a sequence of the same length whose elements match position
\* by position; an object never matches a sequence.  And the entry that a
\* match of _find_sub_json points to satisfies the reference.
C24_MatcherAgreesWithReference ==
    \A t \in Callers :
        /\ Called(t, "is_match")
           => LET a == frame[t].args
              IN /\ frame[t].result.match = Reference(a.jsn, a.sbj)
                 /\ (a.jsn.t = "dict" /\ a.sbj.t = "list") => ~frame[t].result.match
                 /\ (a.jsn.t = "list" /\ a.sbj.t = "dict") => ~frame[t].result.match
        /\ Called(t, "_find_sub_json")
           => LET a == frame[t].args
                  r == frame[t].result
              IN r.found => Reference(At(a.jsn, r.path \o <<r.pos>>), a.sbj)

\* is_match has matched a command against an object pattern that lists the
\* same keys in the other order, with a wildcard for one value.
C24_Witness ==
    \E t \in Callers :
        /\ Called(t, "is_match")
        /\ frame[t].args.jsn = EnableCmd("p2")
        /\ frame[t].args.sbj = Dict(<< <<"input", Wildcard>>, <<"cmd", Str("enable")>> >>)
        /\ frame[t].result.match

\* The keyword arguments without one keyword.
Without(kwargs, key) == Dict(SelectSeq(kwargs.items, LAMBDA e : e[1] # key))

\* C25: request() builds an envelope with jsonrpc "2.0", method "runCmds",
\* params.version 1, params.cmds the caller's commands in the caller's
\* order, params.format the encoding, streaming false unless supplied, and
\* id the string form of the caller's reqid, or of the identity token of the
\* connection when there is none; autoComplete and expandAliases are in
\* params exactly when the caller supplied them, and any other keyword
\* argument has no effect on the envelope.
C25_EnvelopeIsBuiltFromTheArguments ==
    \A t \in Callers :
        (Called(t, "request") /\ ~frame[t].result.raised)
        => LET a == frame[t].args
               env == Loads(frame[t].result.data)
               params == Get(env.v, "params")
               given(k) == Has(a.kwargs, k)
           IN /\ env.ok
              /\ KeysOf(env.v) = {"jsonrpc", "method", "params", "id", "streaming"}
              /\ Get(env.v, "jsonrpc") = Str("2.0")
              /\ Get(env.v, "method") = Str("runCmds")
              /\ Get(params, "version") = Num(1)
              /\ Get(params, "cmds")
                    = (IF a.commands.t = "list" THEN a.commands ELSE List(<<a.commands>>))
              /\ Get(params, "format") = Str(a.encoding)
              /\ Get(env.v, "streaming")
                    = (IF given("streaming") THEN Get(a.kwargs, "streaming") ELSE Bool(FALSE))
              /\ Get(env.v, "id")
                    = (IF given("reqid") /\ Get(a.kwargs, "reqid") # Null
                       THEN (IF Get(a.kwargs, "reqid").t = "num"
                             THEN Str(ToString(Get(a.kwargs, "reqid").n))
                             ELSE Get(a.kwargs, "reqid"))
                       ELSE Str(ToString(IdOf("c1"))))
              /\ KeysOf(params)
                    = {"version", "cmds", "format"}
                      \cup {k \in {"autoComplete", "expandAliases"} : given(k)}
              /\ \A k \in {"autoComplete", "expandAliases"} :
                    given(k) => Get(params, k) = Get(a.kwargs, k)
              /\ frame[t].result.data
                    = request("c1", a.commands, a.encoding, Without(a.kwargs, "revision")).data

\* request() has built the envelope of two commands for a caller that gave
\* a numeric reqid, expandAliases, streaming and an unknown keyword, and no
\* autoComplete.
C25_Witness ==
    \E t \in Callers :
        /\ Called(t, "request")
        /\ ~frame[t].result.raised
        /\ frame[t].args.commands = List(<<Str("configure"), EnableCmd("p1")>>)
        /\ frame[t].args.encoding = "text"
        /\ frame[t].args.kwargs
             = Dict(<< <<"reqid", Num(7)>>, <<"expandAliases", Bool(FALSE)>>,
                       <<"streaming", Bool(TRUE)>>, <<"revision", Num(1)>> >>)
        /\ CmdsOf(frame[t].result.data) = <<Str("configure"), EnableCmd("p1")>>

\* C26: HttpsEapiConnection hands the transport a context of its own that
\* does not verify the peer only when the caller supplied no context and
\* did not request enforce_verification; a context of the caller is handed
\* over unchanged whatever enforce_verification is; with no context and
\* enforce_verification requested the transport gets no context.
C26_InsecureOnlyByDefault ==
    \A t \in Callers :
        Called(t, "HttpsEapiConnection")
        => LET a == frame[t].args
               handed == frame[t].result.transport.context
               requested == a.enforce_verification \in {Bool(TRUE), Num(1), Str("yes")}
           IN /\ handed = SSLContext(FALSE, "connection")
                 => a.context = NoneVal /\ ~requested
              /\ a.context # NoneVal => handed = a.context
              /\ (a.context = NoneVal /\ requested) => handed = NoneVal

\* A connection made with no context and enforce_verification=True, on a
\* Python that has ssl._create_unverified_context, has handed no context to
\* its transport.
C26_Witness ==
    \E t \in Callers :
        /\ Called(t, "HttpsEapiConnection")
        /\ frame[t].args.context = NoneVal
        /\ frame[t].args.enforce_verification = Bool(TRUE)
        /\ frame[t].args.has_unverified
        /\ frame[t].result.transport.context = NoneVal

\* The two cached properties of a Node, and the value cached for one.
Properties == {"running_config", "startup_config"}

CachedFor(nop) == IF nop = "running_config" THEN node._running ELSE node._startup

C28_OneConfigurePerBatch ==
    \A t \in Callers :
        LET f == frame[t] IN
        /\ (f.op = "execute" /\ f.nop = "config")
           => /\ f.commands = List(<<Str("configure")>> \o f.narg.given)
              /\ (f.pc = "returned" /\ Has(f.result, "result")
                    /\ Len(Get(f.result, "result").items) = Len(f.commands.items))
                 => Len(Get(f.result, "result").items) = 1 + Len(f.narg.given)
        /\ (f.op = "config" /\ f.pc = "returned")
           => (heap.made => Len(heap.items) <= 1 + Len(heap.given))

====
